---- MODULE Spec2Model ----
(***************************************************************************)
(* TinyLang back end: semantic analysis, three-address code generation,    *)
(* TAC optimisation, bytecode emission and the stack virtual machine of    *)
(* src/tinylang_compiler/src/semantic_codegen.py, driven by                 *)
(* TinyLangFullCompiler.compile_and_run over a bounded family of ASTs.      *)
(*                                                                         *)
(* Python values.  A Python str is a sequence of one-character strings, so *)
(* that str.startswith and f-string formatting are computed.  A Python int *)
(* is unbounded; it is carried as two digits, value = hi * Digit + lo with *)
(* 0 <= lo < Digit, so that results beyond 32 bits are represented         *)
(* exactly.  A Python bool is an int (isinstance(True, int) holds) that    *)
(* remembers it is a bool, because str(True) is "True" and not "1".        *)
(***************************************************************************)
EXTENDS Integers, Sequences, FiniteSets, TLC

(***************************************************************************)
(* Bounds of the exploration.                                              *)
(***************************************************************************)
\* integer literals of the generated programs range over 0..MaxLit
MaxLit == 2
\* operands of the arithmetic harness range over -MaxOperand..MaxOperand
MaxOperand == 3
\* the dispatch loop of the VM is followed for at most MaxSteps iterations
MaxSteps == 200
\* scopes are nested at most MaxDepth deep in the symbol-table exploration
MaxDepth == 2
MaxInvocations == 2
MaxLines == 4
\* instructions in a bytecode list handed to the VM directly
MaxCode == 2

(***************************************************************************)
(* Python int / bool                                                       *)
(***************************************************************************)
Digit == 2^15

Norm(h, l) == [bool |-> FALSE, hi |-> h + (l \div Digit), lo |-> l % Digit]

MkInt(n) == Norm(0, n)

PyTrue == [bool |-> TRUE, hi |-> 0, lo |-> 1]
PyFalse == [bool |-> TRUE, hi |-> 0, lo |-> 0]
PyBool(b) == IF b THEN PyTrue ELSE PyFalse

\* the marker of a raised exception where a value was expected
ZeroDivisionError == [bool |-> FALSE, hi |-> 0, lo |-> -1]

Zero == MkInt(0)
One == MkInt(1)

\* the machine integer of a Python int that fits one
Native(a) == a.hi * Digit + a.lo

IntEq(a, b) == a.hi = b.hi /\ a.lo = b.lo
IntLt(a, b) == a.hi < b.hi \/ (a.hi = b.hi /\ a.lo < b.lo)
Truthy(a) == a.hi # 0 \/ a.lo # 0

PyAdd(a, b) == Norm(a.hi + b.hi, a.lo + b.lo)
PySub(a, b) == Norm(a.hi - b.hi, a.lo - b.lo)
PyNeg(a) == Norm(-a.hi, -a.lo)
PyAbs(a) == IF a.hi < 0 THEN PyNeg(a) ELSE a
\* schoolbook product of the magnitudes, then the sign
PyMul(a, b) ==
    LET m == PyAbs(a)
        n == PyAbs(b)
        p == Norm(m.hi * n.hi * Digit + m.hi * n.lo + m.lo * n.hi, m.lo * n.lo)
    IN  IF (a.hi < 0) # (b.hi < 0) THEN PyNeg(p) ELSE p

\* quotient and remainder of magnitudes m >= 0 and n > 0: digit by digit when n
\* is a single digit, trivially when m < n, on machine integers otherwise
DivRemAbs(m, n) ==
    IF n.hi = 0
    THEN LET t == (m.hi % n.lo) * Digit + m.lo
         IN  [q |-> [bool |-> FALSE, hi |-> m.hi \div n.lo, lo |-> t \div n.lo],
              r |-> MkInt(t % n.lo)]
    ELSE IF IntLt(m, n) THEN [q |-> Zero, r |-> Norm(m.hi, m.lo)]
    ELSE [q |-> MkInt(Native(m) \div Native(n)), r |-> MkInt(Native(m) % Native(n))]

\* divmod(a, b) truncating toward zero, as C's / and % do
PyDivModTruncating(a, b) ==
    LET d == DivRemAbs(PyAbs(a), PyAbs(b))
    IN  [q |-> IF (a.hi < 0) # (b.hi < 0) THEN PyNeg(d.q) ELSE d.q,
         r |-> IF a.hi < 0 THEN PyNeg(d.r) ELSE d.r]

\* divmod(a, b) for b # 0: the truncated quotient and remainder of the magnitudes
\* with their signs, moved to the floor when the remainder's sign is not b's
PyDivMod(a, b) ==
    LET d == DivRemAbs(PyAbs(a), PyAbs(b))
        q0 == IF (a.hi < 0) # (b.hi < 0) THEN PyNeg(d.q) ELSE d.q
        r0 == IF a.hi < 0 THEN PyNeg(d.r) ELSE d.r
    IN  IF Truthy(r0) /\ ((r0.hi < 0) # (b.hi < 0))
        THEN [q |-> PySub(q0, One), r |-> PyAdd(r0, b)]
        ELSE [q |-> q0, r |-> r0]

\* a // b: floor division, ZeroDivisionError when b is 0
PyFloorDiv(a, b) == IF ~Truthy(b) THEN ZeroDivisionError ELSE PyDivMod(a, b).q

\* a % b: the remainder takes the sign of the divisor
PyMod(a, b) == IF ~Truthy(b) THEN ZeroDivisionError ELSE PyDivMod(a, b).r

\* str(n) of a non-negative int, most significant digit first
DigitChars == <<"0", "1", "2", "3", "4", "5", "6", "7", "8", "9">>

RECURSIVE NatStr(_)
NatStr(a) ==
    LET t == (a.hi % 10) * Digit + a.lo
        q == [bool |-> FALSE, hi |-> a.hi \div 10, lo |-> t \div 10]
        d == <<DigitChars[(t % 10) + 1]>>
    IN  IF Truthy(q) THEN NatStr(q) \o d ELSE d

\* str(value): "True"/"False" for a bool, the decimal digits for an int
PyStr(a) ==
    IF a.bool THEN (IF Truthy(a) THEN <<"T", "r", "u", "e">>
                                 ELSE <<"F", "a", "l", "s", "e">>)
    ELSE IF a.hi < 0 THEN <<"-">> \o NatStr(PyNeg(a))
    ELSE NatStr(a)

(***************************************************************************)
(* AST nodes (lexer_parser.py).  An absent Optional field is NoNode, an    *)
(* absent else block is NoBlock.                                           *)
(***************************************************************************)
NoNode == [node |-> "None"]
NoBlock == [is_none |-> TRUE, stmts |-> <<>>]
Block(stmts) == [is_none |-> FALSE, stmts |-> stmts]

Literal(v, ty) == [node |-> "Literal", value |-> v, lit_type |-> ty]
Variable(n) == [node |-> "Variable", name |-> n]
BinaryOp(op, l, r) == [node |-> "BinaryOp", op |-> op, left |-> l, right |-> r]
UnaryOp(op, e) == [node |-> "UnaryOp", op |-> op, operand |-> e]
VarDecl(ty, n, e) == [node |-> "VarDecl", var_type |-> ty, name |-> n, value |-> e]
Assignment(n, e) == [node |-> "Assignment", name |-> n, value |-> e]
IfStmt(c, t, e) == [node |-> "IfStmt", condition |-> c, then_block |-> t, else_block |-> e]
WhileStmt(c, b) == [node |-> "WhileStmt", condition |-> c, body |-> b]
PrintStmt(e) == [node |-> "PrintStmt", expression |-> e]
Program(stmts) == [node |-> "Program", statements |-> stmts]

\* ASTBuilder.int_literal and ASTBuilder.bool_literal
IntLit(n) == Literal(MkInt(n), "int")
BoolLit(b) == Literal(PyBool(b), "bool")

\* a test of the else block that never finds one
ListTruthyNever(b) == FALSE

\* truth of an Optional[List]: neither None nor empty
ListTruthy(b) == ~b.is_none /\ Len(b.stmts) > 0

(***************************************************************************)
(* SymbolTable                                                             *)
(***************************************************************************)
Symbol(n, ty, level) == [name |-> n, var_type |-> ty, scope_level |-> level]

\* a dict with no key
EmptyDict == [k \in {} |-> NoNode]
DictSet(d, k, v) == [j \in DOMAIN d \cup {k} |-> IF j = k THEN v ELSE d[j]]

SymbolTableInit == [scopes |-> <<EmptyDict>>, current_scope |-> 0]

enter_scope(t) ==
    [scopes |-> Append(t.scopes, EmptyDict), current_scope |-> t.current_scope + 1]

\* an exit_scope that lowers current_scope and leaves the scope on the list
exit_scope_unpopped(t) ==
    IF t.current_scope > 0 THEN [t EXCEPT !.current_scope = @ - 1] ELSE t

exit_scope(t) ==
    IF t.current_scope > 0
    THEN [scopes |-> SubSeq(t.scopes, 1, Len(t.scopes) - 1),
          current_scope |-> t.current_scope - 1]
    ELSE t

\* a declare that never finds the name in the current scope
CanDeclareAlways(t, n) == TRUE

\* whether declare returns True
CanDeclare(t, n) == n \notin DOMAIN t.scopes[t.current_scope + 1]

\* a declare that binds the name whether or not the scope has it
declareOverwriting(t, n, ty) ==
    [t EXCEPT !.scopes[t.current_scope + 1] = DictSet(@, n, Symbol(n, ty, t.current_scope))]

declare(t, n, ty) ==
    IF ~CanDeclare(t, n) THEN t
    ELSE [t EXCEPT !.scopes[t.current_scope + 1] =
              DictSet(@, n, Symbol(n, ty, t.current_scope))]

NoSymbol == [name |-> <<>>, var_type |-> "None", scope_level |-> -1]

RECURSIVE LookupFrom(_, _, _)
LookupFrom(t, n, i) ==
    IF i < 0 THEN NoSymbol
    ELSE IF n \in DOMAIN t.scopes[i + 1] THEN t.scopes[i + 1][n]
    ELSE LookupFrom(t, n, i - 1)

\* a lookup that finds nothing
lookupNothing(t, n) == NoSymbol

lookup(t, n) == LookupFrom(t, n, t.current_scope)

(***************************************************************************)
(* SemanticAnalyzer.  The analyzer state is [symbol_table, errors]; analyze *)
(* returns the state after the node and the node's type ("None" for None). *)
(***************************************************************************)
Err(kind, n, t1, t2) == [kind |-> kind, name |-> n, t1 |-> t1, t2 |-> t2]

AnalyzerInit == [symbol_table |-> SymbolTableInit, errors |-> <<>>]

error(a, e) == [a EXCEPT !.errors = Append(@, e)]

ArithOps == {"+", "-", "*", "/", "%"}
OrderOps == {"<", ">", "<=", ">="}
EqOps == {"==", "!="}
LogicOps == {"&&", "||"}

RECURSIVE analyze(_, _)
RECURSIVE AnalyzeStmts(_, _)

\* for stmt in block: self.analyze(stmt)
AnalyzeStmts(stmts, a) ==
    IF stmts = <<>> THEN a
    ELSE AnalyzeStmts(Tail(stmts), analyze(Head(stmts), a).a)

AnalyzeScoped(stmts, a) ==
    LET entered == [a EXCEPT !.symbol_table = enter_scope(@)]
        done == AnalyzeStmts(stmts, entered)
    IN  [done EXCEPT !.symbol_table = exit_scope(@)]

analyze(n, a) ==
    CASE n.node = "Program" ->
           [a |-> AnalyzeStmts(n.statements, a), ty |-> "None"]
      [] n.node = "VarDecl" ->
           LET declared == [a EXCEPT !.symbol_table = declare(@, n.name, n.var_type)]
               a1 == IF CanDeclare(a.symbol_table, n.name)
                     THEN declared
                     ELSE error(declared, Err("already declared", n.name, "", ""))
           IN  IF n.value.node # "None"
               THEN LET v == analyze(n.value, a1)
                    IN  [a |-> IF v.ty # n.var_type
                               THEN error(v.a, Err("type mismatch", n.name, v.ty, n.var_type))
                               ELSE v.a,
                         ty |-> "None"]
               ELSE [a |-> a1, ty |-> "None"]
      [] n.node = "Assignment" ->
           LET symbol == lookup(a.symbol_table, n.name)
           IN  IF symbol = NoSymbol
               THEN [a |-> error(a, Err("undeclared", n.name, "", "")), ty |-> "None"]
               ELSE LET v == analyze(n.value, a)
                    IN  [a |-> IF v.ty # symbol.var_type
                               THEN error(v.a, Err("type mismatch", n.name, v.ty, symbol.var_type))
                               ELSE v.a,
                         ty |-> "None"]
      [] n.node = "IfStmt" ->
           LET c == analyze(n.condition, a)
               a1 == IF c.ty # "bool"
                     THEN error(c.a, Err("if condition", <<>>, c.ty, "bool"))
                     ELSE c.a
               a2 == AnalyzeScoped(n.then_block, a1)
           IN  [a |-> IF ListTruthy(n.else_block)
                      THEN AnalyzeScoped(n.else_block.stmts, a2)
                      ELSE a2,
                ty |-> "None"]
      [] n.node = "WhileStmt" ->
           LET c == analyze(n.condition, a)
               a1 == IF c.ty # "bool"
                     THEN error(c.a, Err("while condition", <<>>, c.ty, "bool"))
                     ELSE c.a
           IN  [a |-> AnalyzeScoped(n.body, a1), ty |-> "None"]
      [] n.node = "PrintStmt" ->
           [a |-> analyze(n.expression, a).a, ty |-> "None"]
      [] n.node = "BinaryOp" ->
           LET l == analyze(n.left, a)
               r == analyze(n.right, l.a)
           IN  CASE n.op \in ArithOps ->
                      [a |-> IF l.ty # "int" \/ r.ty # "int"
                             THEN error(r.a, Err("arithmetic operands", <<>>, l.ty, r.ty))
                             ELSE r.a,
                       ty |-> "int"]
                 [] n.op \in OrderOps ->
                      [a |-> IF l.ty # "int" \/ r.ty # "int"
                             THEN error(r.a, Err("comparison operands", <<>>, l.ty, r.ty))
                             ELSE r.a,
                       ty |-> "bool"]
                 [] n.op \in EqOps ->
                      [a |-> IF l.ty # r.ty
                             THEN error(r.a, Err("comparison types", <<>>, l.ty, r.ty))
                             ELSE r.a,
                       ty |-> "bool"]
                 [] n.op \in LogicOps ->
                      [a |-> IF l.ty # "bool" \/ r.ty # "bool"
                             THEN error(r.a, Err("logical operands", <<>>, l.ty, r.ty))
                             ELSE r.a,
                       ty |-> "bool"]
                 [] OTHER -> [a |-> r.a, ty |-> "None"]
      [] n.node = "UnaryOp" ->
           LET o == analyze(n.operand, a)
           IN  CASE n.op = "-" ->
                      [a |-> IF o.ty # "int"
                             THEN error(o.a, Err("unary minus operand", <<>>, o.ty, "int"))
                             ELSE o.a,
                       ty |-> "int"]
                 [] n.op = "!" ->
                      [a |-> IF o.ty # "bool"
                             THEN error(o.a, Err("logical not operand", <<>>, o.ty, "bool"))
                             ELSE o.a,
                       ty |-> "bool"]
                 [] OTHER -> [a |-> o.a, ty |-> "None"]
      [] n.node = "Literal" -> [a |-> a, ty |-> n.lit_type]
      [] n.node = "Variable" ->
           LET symbol == lookup(a.symbol_table, n.name)
           IN  IF symbol = NoSymbol
               THEN [a |-> error(a, Err("undeclared", n.name, "", "")), ty |-> "int"]
               ELSE [a |-> a, ty |-> symbol.var_type]
      [] OTHER -> [a |-> a, ty |-> "None"]

(***************************************************************************)
(* Three-address code.  arg1, arg2 and result are None, a str or an int    *)
(* (a bool is an int).                                                     *)
(***************************************************************************)
NoneArg == [k |-> "none", s |-> <<>>, v |-> Zero]
StrArg(n) == [k |-> "str", s |-> n, v |-> Zero]
IntArg(v) == [k |-> "int", s |-> <<>>, v |-> v]

TACInstruction(op, arg1, arg2, result) ==
    [op |-> op, arg1 |-> arg1, arg2 |-> arg2, result |-> result]

TACGeneratorInit == [instructions |-> <<>>, temp_counter |-> 0, label_counter |-> 0]

\* f"t{self.temp_counter}"
TempName(n) == <<"t">> \o PyStr(MkInt(n))
\* f"L{self.label_counter}"
LabelName(n) == <<"L">> \o PyStr(MkInt(n))

new_temp(g) ==
    [g |-> [g EXCEPT !.temp_counter = @ + 1], r |-> StrArg(TempName(g.temp_counter))]

\* a new_label that does not advance the counter
new_label_repeated(g) == [g |-> g, r |-> StrArg(LabelName(g.label_counter))]

new_label(g) ==
    [g |-> [g EXCEPT !.label_counter = @ + 1], r |-> StrArg(LabelName(g.label_counter))]

emit(g, op, arg1, arg2, result) ==
    [g EXCEPT !.instructions = Append(@, TACInstruction(op, arg1, arg2, result))]

BinaryOpMap(op) ==
    CASE op = "+" -> "ADD" [] op = "-" -> "SUB" [] op = "*" -> "MUL"
      [] op = "/" -> "DIV" [] op = "%" -> "MOD"
      [] op = "<" -> "LT" [] op = ">" -> "GT"
      [] op = "<=" -> "LTE" [] op = ">=" -> "GTE"
      [] op = "==" -> "EQ" [] op = "!=" -> "NEQ"
      [] op = "&&" -> "AND" [] op = "||" -> "OR"

UnaryOpMap(op) == CASE op = "-" -> "NEG" [] op = "!" -> "NOT"

RECURSIVE generate(_, _)
RECURSIVE GenerateStmts(_, _)

\* for stmt in block: self.generate(stmt)
GenerateStmts(stmts, g) ==
    IF stmts = <<>> THEN g
    ELSE GenerateStmts(Tail(stmts), generate(Head(stmts), g).g)

generate(n, g) ==
    CASE n.node = "Program" ->
           [g |-> GenerateStmts(n.statements, g), r |-> NoneArg]
      [] n.node = "VarDecl" ->
           IF n.value.node # "None"
           THEN LET v == generate(n.value, g)
                IN  [g |-> emit(v.g, "ASSIGN", v.r, NoneArg, StrArg(n.name)), r |-> NoneArg]
           ELSE [g |-> g, r |-> NoneArg]
      [] n.node = "Assignment" ->
           LET v == generate(n.value, g)
           IN  [g |-> emit(v.g, "ASSIGN", v.r, NoneArg, StrArg(n.name)), r |-> NoneArg]
      [] n.node = "IfStmt" ->
           LET c == generate(n.condition, g)
               else_label == new_label(c.g)
               end_label == new_label(else_label.g)
               g1 == emit(end_label.g, "IF_FALSE", c.r, NoneArg, else_label.r)
               g2 == GenerateStmts(n.then_block, g1)
               g3 == emit(g2, "GOTO", NoneArg, NoneArg, end_label.r)
               g4 == emit(g3, "LABEL", NoneArg, NoneArg, else_label.r)
               g5 == IF ListTruthy(n.else_block)
                     THEN GenerateStmts(n.else_block.stmts, g4)
                     ELSE g4
           IN  [g |-> emit(g5, "LABEL", NoneArg, NoneArg, end_label.r), r |-> NoneArg]
      [] n.node = "WhileStmt" ->
           LET start_label == new_label(g)
               end_label == new_label(start_label.g)
               g1 == emit(end_label.g, "LABEL", NoneArg, NoneArg, start_label.r)
               c == generate(n.condition, g1)
               g2 == emit(c.g, "IF_FALSE", c.r, NoneArg, end_label.r)
               g3 == GenerateStmts(n.body, g2)
               g4 == emit(g3, "GOTO", NoneArg, NoneArg, start_label.r)
           IN  [g |-> emit(g4, "LABEL", NoneArg, NoneArg, end_label.r), r |-> NoneArg]
      [] n.node = "PrintStmt" ->
           LET e == generate(n.expression, g)
           IN  [g |-> emit(e.g, "PRINT", e.r, NoneArg, NoneArg), r |-> NoneArg]
      [] n.node = "BinaryOp" ->
           LET l == generate(n.left, g)
               r == generate(n.right, l.g)
               t == new_temp(r.g)
           IN  [g |-> emit(t.g, BinaryOpMap(n.op), l.r, r.r, t.r), r |-> t.r]
      [] n.node = "UnaryOp" ->
           LET o == generate(n.operand, g)
               t == new_temp(o.g)
           IN  [g |-> emit(t.g, UnaryOpMap(n.op), o.r, NoneArg, t.r), r |-> t.r]
      [] n.node = "Literal" ->
           LET t == new_temp(g)
           IN  [g |-> emit(t.g, "ASSIGN", IntArg(n.value), NoneArg, t.r), r |-> t.r]
      [] n.node = "Variable" -> [g |-> g, r |-> StrArg(n.name)]
      [] OTHER -> [g |-> g, r |-> NoneArg]

(***************************************************************************)
(* TACOptimizer                                                            *)
(***************************************************************************)
FoldOps == {"ADD", "SUB", "MUL", "DIV", "MOD"}

\* constants.get(arg, arg)
ConstGet(constants, arg) ==
    IF arg.k = "str" /\ arg.s \in DOMAIN constants THEN IntArg(constants[arg.s]) ELSE arg

\* the folded value of val1 OP val2 (lines 426-435)
FoldValue(op, val1, val2) ==
    CASE op = "ADD" -> PyAdd(val1, val2)
      [] op = "SUB" -> PySub(val1, val2)
      [] op = "MUL" -> PyMul(val1, val2)
      [] op = "DIV" -> IF Truthy(val2) THEN PyFloorDiv(val1, val2) ELSE Zero
      [] op = "MOD" -> IF Truthy(val2) THEN PyMod(val1, val2) ELSE Zero

RECURSIVE FoldFrom(_, _, _)
FoldFrom(instructions, constants, optimized) ==
    IF instructions = <<>> THEN optimized
    ELSE LET instr == Head(instructions)
             rest == Tail(instructions)
         IN  IF instr.op = "ASSIGN" /\ instr.arg1.k = "int"
             THEN FoldFrom(rest, DictSet(constants, instr.result.s, instr.arg1.v),
                           Append(optimized, instr))
             ELSE IF instr.op \in FoldOps
             THEN LET val1 == ConstGet(constants, instr.arg1)
                      val2 == ConstGet(constants, instr.arg2)
                  IN  IF val1.k = "int" /\ val2.k = "int"
                      THEN LET result == FoldValue(instr.op, val1.v, val2.v)
                           IN  FoldFrom(rest, DictSet(constants, instr.result.s, result),
                                        Append(optimized,
                                               TACInstruction("ASSIGN", IntArg(result),
                                                              NoneArg, instr.result)))
                      ELSE FoldFrom(rest, constants, Append(optimized, instr))
             ELSE FoldFrom(rest, constants, Append(optimized, instr))

constant_folding(instructions) == FoldFrom(instructions, EmptyDict, <<>>)

\* truth of an argument: None, "" and 0 (False) are falsy
ArgTruthy(arg) ==
    CASE arg.k = "none" -> FALSE
      [] arg.k = "str" -> Len(arg.s) > 0
      [] arg.k = "int" -> Truthy(arg.v)

\* first pass of dead_code_elimination
UsedVars(instructions) ==
    {instructions[i].arg1.s : i \in {j \in 1..Len(instructions) :
         ArgTruthy(instructions[j].arg1) /\ instructions[j].arg1.k = "str"}}
    \cup
    {instructions[i].arg2.s : i \in {j \in 1..Len(instructions) :
         ArgTruthy(instructions[j].arg2) /\ instructions[j].arg2.k = "str"}}

\* str.startswith('t')
StartsWithT(name) == Len(name) > 0 /\ name[1] = "t"

\* whether the second pass keeps the instruction
DceKeeps(instr, used_vars) ==
    IF instr.op = "ASSIGN" /\ ArgTruthy(instr.result) /\ StartsWithT(instr.result.s)
    THEN instr.result.s \in used_vars
    ELSE TRUE

dead_code_elimination(instructions) ==
    LET used_vars == UsedVars(instructions)
    IN  SelectSeq(instructions, LAMBDA instr : DceKeeps(instr, used_vars))

\* a comparison with the immediate that never succeeds
ArgIsNever(arg, n) == FALSE

\* instr.argN == n for an immediate n (a str never equals an int)
ArgIs(arg, n) == arg.k = "int" /\ IntEq(arg.v, MkInt(n))

Simplify(instr) ==
    CASE instr.op = "ADD" ->
           IF ArgIs(instr.arg2, 0)
           THEN TACInstruction("COPY", instr.arg1, NoneArg, instr.result)
           ELSE IF ArgIs(instr.arg1, 0)
           THEN TACInstruction("COPY", instr.arg2, NoneArg, instr.result)
           ELSE instr
      [] instr.op = "MUL" ->
           IF ArgIs(instr.arg2, 1)
           THEN TACInstruction("COPY", instr.arg1, NoneArg, instr.result)
           ELSE IF ArgIs(instr.arg1, 1)
           THEN TACInstruction("COPY", instr.arg2, NoneArg, instr.result)
           ELSE IF ArgIs(instr.arg2, 0) \/ ArgIs(instr.arg1, 0)
           THEN TACInstruction("ASSIGN", IntArg(Zero), NoneArg, instr.result)
           ELSE instr
      [] OTHER -> instr

algebraic_simplification(instructions) ==
    [i \in 1..Len(instructions) |-> Simplify(instructions[i])]

optimize(instructions) ==
    algebraic_simplification(dead_code_elimination(constant_folding(instructions)))

(***************************************************************************)
(* BytecodeGenerator                                                       *)
(***************************************************************************)
BytecodeInstruction(op, arg) == [op |-> op, arg |-> arg]

BytecodeGeneratorInit == [bytecode |-> <<>>, labels |-> EmptyDict]

\* _load_operand: PUSH for an int, LOAD for anything else
LoadOperand(operand) ==
    IF operand.k = "int" THEN BytecodeInstruction("PUSH", operand)
    ELSE BytecodeInstruction("LOAD", operand)

BinaryTacOps == {"ADD", "SUB", "MUL", "DIV", "MOD",
                 "LT", "GT", "LTE", "GTE", "EQ", "NEQ", "AND", "OR"}

\* the bytecode _generate_instruction appends for one TAC instruction
GenerateInstruction(instr) ==
    CASE instr.op = "ASSIGN" ->
           <<LoadOperand(instr.arg1), BytecodeInstruction("STORE", instr.result)>>
      [] instr.op = "COPY" ->
           <<BytecodeInstruction("LOAD", instr.arg1),
             BytecodeInstruction("STORE", instr.result)>>
      [] instr.op \in BinaryTacOps ->
           <<LoadOperand(instr.arg1), LoadOperand(instr.arg2),
             BytecodeInstruction(instr.op, NoneArg),
             BytecodeInstruction("STORE", instr.result)>>
      [] instr.op \in {"NEG", "NOT"} ->
           <<LoadOperand(instr.arg1), BytecodeInstruction(instr.op, NoneArg),
             BytecodeInstruction("STORE", instr.result)>>
      [] instr.op = "PRINT" ->
           <<LoadOperand(instr.arg1), BytecodeInstruction("PRINT", NoneArg)>>
      [] instr.op = "GOTO" ->
           <<BytecodeInstruction("JUMP", instr.result)>>
      [] instr.op = "IF_FALSE" ->
           <<LoadOperand(instr.arg1), BytecodeInstruction("JUMP_IF_FALSE", instr.result)>>
      [] OTHER -> <<>>

\* first pass of generate: labels record len(self.bytecode), the rest is lowered
RECURSIVE FirstPass(_, _)
FirstPass(tac_instructions, b) ==
    IF tac_instructions = <<>> THEN b
    ELSE LET instr == Head(tac_instructions)
         IN  FirstPass(Tail(tac_instructions),
                 IF instr.op = "LABEL"
                 THEN [b EXCEPT !.labels = DictSet(@, instr.result.s, Len(b.bytecode))]
                 ELSE [b EXCEPT !.bytecode = @ \o GenerateInstruction(instr)])

\* _resolve_labels testing for JUMP alone
ResolveLabelJumpOnly(bc, labels) ==
    IF bc.op = "JUMP" /\ bc.arg.k = "str" /\ bc.arg.s \in DOMAIN labels
    THEN [bc EXCEPT !.arg = IntArg(MkInt(labels[bc.arg.s]))]
    ELSE bc

\* _resolve_labels: a label name that is known becomes its address
ResolveLabel(bc, labels) ==
    IF bc.op \in {"JUMP", "JUMP_IF_FALSE"} /\ bc.arg.k = "str" /\ bc.arg.s \in DOMAIN labels
    THEN [bc EXCEPT !.arg = IntArg(MkInt(labels[bc.arg.s]))]
    ELSE bc

ResolveLabels(b) ==
    [b EXCEPT !.bytecode = [i \in 1..Len(b.bytecode) |-> ResolveLabel(b.bytecode[i], b.labels)]]

BytecodeGenerate(b, tac_instructions) ==
    LET p == FirstPass(tac_instructions, b)
        h == [p EXCEPT !.bytecode = Append(@, BytecodeInstruction("HALT", NoneArg))]
    IN  ResolveLabels(h)

(***************************************************************************)
(* VirtualMachine.  VMStep is one iteration of the loop of execute; st is  *)
(* "running", "halted" (HALT or pc at the end) or the exception raised.    *)
(***************************************************************************)
VirtualMachineInit == [stack |-> <<>>, variables |-> EmptyDict, pc |-> 0, output |-> <<>>]

\* a read that defaults to 1
VarGetOne(variables, name) == IF name \in DOMAIN variables THEN variables[name] ELSE One

\* self.variables.get(name, 0)
VarGet(variables, name) == IF name \in DOMAIN variables THEN variables[name] ELSE Zero

Top(stack) == stack[Len(stack)]
\* a pop that reads the top and leaves it on the stack
PopKeepsTop(stack) == stack

Pop(stack) == SubSeq(stack, 1, Len(stack) - 1)

\* a // b with the test of b left out
VmDivUnguarded(a, b) == PyFloorDiv(a, b)

\* a // b if b != 0 else 0
VmDiv(a, b) == IF Truthy(b) THEN PyFloorDiv(a, b) ELSE Zero
\* a % b if b != 0 else 0
VmMod(a, b) == IF Truthy(b) THEN PyMod(a, b) ELSE Zero

\* the value a two-operand opcode pushes for a (popped second) and b (popped first)
VmBinary(op, a, b) ==
    CASE op = "ADD" -> PyAdd(a, b)
      [] op = "SUB" -> PySub(a, b)
      [] op = "MUL" -> PyMul(a, b)
      [] op = "DIV" -> VmDiv(a, b)
      [] op = "MOD" -> VmMod(a, b)
      [] op = "LT" -> IF IntLt(a, b) THEN One ELSE Zero
      [] op = "GT" -> IF IntLt(b, a) THEN One ELSE Zero
      [] op = "LTE" -> IF ~IntLt(b, a) THEN One ELSE Zero
      [] op = "GTE" -> IF ~IntLt(a, b) THEN One ELSE Zero
      [] op = "EQ" -> IF IntEq(a, b) THEN One ELSE Zero
      [] op = "NEQ" -> IF ~IntEq(a, b) THEN One ELSE Zero
      [] op = "AND" -> IF Truthy(a) /\ Truthy(b) THEN One ELSE Zero
      [] op = "OR" -> IF Truthy(a) \/ Truthy(b) THEN One ELSE Zero

VmUnary(op, a) ==
    CASE op = "NEG" -> PyNeg(a)
      [] op = "NOT" -> IF Truthy(a) THEN Zero ELSE One

\* the number of values the opcode pops
Pops(op) ==
    CASE op \in BinaryTacOps -> 2
      [] op \in {"STORE", "NEG", "NOT", "PRINT", "JUMP_IF_FALSE"} -> 1
      [] OTHER -> 0

Running(vm) == [vm |-> vm, st |-> "running"]
\* a step that leaves pc where it is
Stay(vm) == Running(vm)
Advance(vm) == Running([vm EXCEPT !.pc = @ + 1])

VMStep(vm, bytecode) ==
    IF vm.pc >= Len(bytecode) THEN [vm |-> vm, st |-> "halted"]
    ELSE
    LET instr == bytecode[vm.pc + 1]
        op == instr.op
        n == Len(vm.stack)
    IN  IF Pops(op) > n
        \* list.pop on an empty list: IndexError
        THEN [vm |-> [vm EXCEPT !.stack = <<>>], st |-> "IndexError"]
        ELSE
        CASE op = "PUSH" -> Advance([vm EXCEPT !.stack = Append(@, instr.arg.v)])
          [] op = "LOAD" ->
               Advance([vm EXCEPT !.stack = Append(@, VarGet(vm.variables, instr.arg.s))])
          [] op = "STORE" ->
               Advance([vm EXCEPT !.stack = Pop(@),
                                  !.variables = DictSet(@, instr.arg.s, Top(vm.stack))])
          [] op \in BinaryTacOps ->
               LET b == vm.stack[n]
                   a == vm.stack[n - 1]
                   r == VmBinary(op, a, b)
               IN  IF r = ZeroDivisionError
                   THEN [vm |-> [vm EXCEPT !.stack = SubSeq(@, 1, n - 2)],
                         st |-> "ZeroDivisionError"]
                   ELSE Advance([vm EXCEPT !.stack = Append(SubSeq(@, 1, n - 2), r)])
          [] op \in {"NEG", "NOT"} ->
               Advance([vm EXCEPT !.stack = Append(Pop(@), VmUnary(op, Top(vm.stack)))])
          [] op = "PRINT" ->
               Advance([vm EXCEPT !.stack = Pop(@),
                                  !.output = Append(@, PyStr(Top(vm.stack)))])
          [] op = "JUMP" ->
               \* a label left unresolved makes pc a str: the loop test raises TypeError
               IF instr.arg.k # "int" THEN [vm |-> vm, st |-> "TypeError"]
               ELSE Running([vm EXCEPT !.pc = Native(instr.arg.v)])
          [] op = "JUMP_IF_FALSE" ->
               IF Truthy(Top(vm.stack)) THEN Advance([vm EXCEPT !.stack = Pop(@)])
               ELSE IF instr.arg.k # "int"
               THEN [vm |-> [vm EXCEPT !.stack = Pop(@)], st |-> "TypeError"]
               ELSE Running([vm EXCEPT !.stack = Pop(@), !.pc = Native(instr.arg.v)])
          [] op = "HALT" -> [vm |-> vm, st |-> "halted"]
          [] OTHER -> Advance(vm)

(***************************************************************************)
(* The programs compiled: families of ASTs over three variable names, one  *)
(* ordinary (x), one that is also the name of the first temporary (t0) and *)
(* one that merely begins with the letter t (total).                       *)
(***************************************************************************)
NameX == <<"x">>
NameY == <<"y">>
NameT0 == <<"t", "0">>
NameTotal == <<"t", "o", "t", "a", "l">>
Names == {NameX, NameT0, NameTotal}

Lits == 0..MaxLit
IntLits == {IntLit(k) : k \in Lits}
BoolLits == {BoolLit(b) : b \in BOOLEAN}

\* int-typed operands once n is declared int
IntAtoms(n) == IntLits \cup {Variable(n)}

\* int n = a; print(l op r);
ArithOn(n) ==
    {<<VarDecl("int", n, IntLit(a)), PrintStmt(BinaryOp(op, l, r))>> :
        a \in Lits, op \in ArithOps, l \in {Variable(n), IntLit(1)}, r \in IntAtoms(n)}

\* print((0 - a) op r);   with r possibly negative
NegativeOperandPrograms ==
    {<<PrintStmt(BinaryOp(op, BinaryOp("-", IntLit(0), IntLit(a)), r))>> :
        a \in Lits, op \in {"/", "%"}, r \in IntLits \cup {UnaryOp("-", IntLit(MaxLit))}}

ArithPrograms == UNION {ArithOn(n) : n \in Names} \cup NegativeOperandPrograms

\* bool n = b; print(e);   for Bool-typed e
BoolExprs(n) ==
    {Variable(n), UnaryOp("!", Variable(n))}
    \cup BoolLits
    \cup {BinaryOp(op, Variable(n), c) : op \in LogicOps \cup EqOps, c \in BoolLits}
    \cup {BinaryOp(op, IntLit(1), c) : op \in OrderOps \cup EqOps, c \in IntLits}

BoolOn(n) ==
    {<<VarDecl("bool", n, b), PrintStmt(e)>> : b \in BoolLits, e \in BoolExprs(n)}

BoolPrograms == UNION {BoolOn(n) : n \in Names} \cup {<<PrintStmt(b)>> : b \in BoolLits}

\* int n = a; if (c) { n = b; } [else { ... }] print(n + 1);
Conds(n) ==
    BoolLits \cup {BinaryOp(op, Variable(n), IntLit(1)) : op \in {"<", "=="}}

Elses(n) ==
    {NoBlock, Block(<<>>), Block(<<PrintStmt(Variable(n))>>)}

IfOn(n) ==
    {<<VarDecl("int", n, IntLit(a)),
       IfStmt(c, <<Assignment(n, IntLit(b))>>, e),
       PrintStmt(BinaryOp("+", Variable(n), IntLit(1)))>> :
        a \in Lits, b \in Lits, c \in Conds(n), e \in Elses(n)}

IfPrograms == UNION {IfOn(n) : n \in Names}

\* int n = a; while (n < b) { print(n); n = n + c; }
WhileProgram(n, a, b, c) ==
    <<VarDecl("int", n, IntLit(a)),
      WhileStmt(BinaryOp("<", Variable(n), IntLit(b)),
                <<PrintStmt(Variable(n)),
                  Assignment(n, BinaryOp("+", Variable(n), IntLit(c)))>>)>>

WhilePrograms ==
    {WhileProgram(n, a, b, c) : n \in Names, a \in Lits, b \in Lits, c \in Lits}

\* declarations without initializer, blocks that declare, the empty program
ScopePrograms ==
    {<<>>}
    \cup {<<VarDecl(ty, n, NoNode)>> : ty \in {"int", "bool"}, n \in Names}
    \cup {<<VarDecl("int", n, NoNode), PrintStmt(Variable(n))>> : n \in Names}
    \cup {<<VarDecl("int", n, IntLit(1)),
            IfStmt(c, <<VarDecl("int", m, IntLit(2))>>, NoBlock),
            PrintStmt(Variable(n))>> : n \in Names, m \in Names, c \in BoolLits}
    \cup {<<VarDecl("int", n, BinaryOp("+", Variable(n), IntLit(1))),
            PrintStmt(Variable(n))>> : n \in Names}

\* programs the analyzer rejects
ErrorPrograms ==
    {<<VarDecl("int", NameX, IntLit(10)), PrintStmt(Variable(NameY))>>,
     <<VarDecl("int", NameX, IntLit(10)), VarDecl("bool", NameY, Variable(NameX))>>}
    \cup {<<PrintStmt(Variable(n))>> : n \in Names}
    \cup {<<Assignment(n, IntLit(1)), PrintStmt(IntLit(2))>> : n \in Names}
    \cup {<<VarDecl("int", n, IntLit(0)), VarDecl(ty, n, NoNode), PrintStmt(Variable(n))>> :
             n \in Names, ty \in {"int", "bool"}}
    \cup {<<VarDecl("int", n, b), PrintStmt(Variable(n))>> : n \in Names, b \in BoolLits}
    \cup {<<VarDecl("bool", n, BoolLit(TRUE)),
            PrintStmt(BinaryOp(op, Variable(n), IntLit(1)))>> :
             n \in Names, op \in {"+", "<", "==", "&&"}}
    \cup {<<IfStmt(IntLit(1), <<PrintStmt(IntLit(1))>>, NoBlock)>>,
          <<WhileStmt(IntLit(0), <<PrintStmt(Variable(NameY))>>)>>,
          <<PrintStmt(UnaryOp("-", BoolLit(TRUE))), PrintStmt(UnaryOp("!", IntLit(0)))>>,
          <<IfStmt(BoolLit(TRUE), <<VarDecl("int", NameX, IntLit(1))>>, NoBlock),
            PrintStmt(Variable(NameX))>>}

\* assignments and redeclarations of either type, several violations in one
\* program, and a block that redeclares the name with the other type
TypingPrograms ==
    {<<VarDecl("int", n, IntLit(0)), Assignment(n, v)>> : n \in Names, v \in IntLits \cup BoolLits}
    \cup {<<VarDecl("int", n, IntLit(0)), VarDecl("bool", n, v), Assignment(n, IntLit(1)),
            PrintStmt(BinaryOp("+", Variable(n), IntLit(1)))>> : n \in Names, v \in {NoNode, BoolLit(TRUE)}}
    \cup {<<VarDecl("bool", n, BoolLit(TRUE)), VarDecl("int", n, NoNode),
            IfStmt(Variable(n), <<PrintStmt(UnaryOp("!", Variable(n)))>>, NoBlock)>> : n \in Names}
    \cup {<<Assignment(NameY, BinaryOp("+", Variable(n), BoolLit(TRUE))),
            PrintStmt(Variable(m))>> : n \in Names, m \in Names}
    \cup {<<PrintStmt(BinaryOp("+", Variable(n), BoolLit(TRUE))),
            IfStmt(IntLit(1), <<PrintStmt(UnaryOp("-", BoolLit(b)))>>,
                   IF a THEN Block(<<Assignment(n, IntLit(1))>>) ELSE NoBlock)>> :
             n \in Names, b \in BOOLEAN, a \in BOOLEAN}
    \cup {<<VarDecl("int", n, IntLit(1)),
            IfStmt(c, <<VarDecl("bool", n, BoolLit(TRUE)), PrintStmt(UnaryOp("!", Variable(n)))>>, NoBlock),
            PrintStmt(BinaryOp("+", Variable(n), IntLit(1)))>> : n \in Names, c \in BoolLits}

\* int n = a; if (c) { print(1); } [else { print(0); }] print(2);
BranchProgram(n, a, c, withElse) ==
    <<VarDecl("int", n, IntLit(a)),
      IfStmt(c, <<PrintStmt(IntLit(1))>>,
             IF withElse THEN Block(<<PrintStmt(IntLit(0))>>) ELSE NoBlock),
      PrintStmt(IntLit(2))>>

BranchOn(n) == {BranchProgram(n, a, c, w) : a \in Lits, c \in Conds(n), w \in BOOLEAN}

BranchPrograms == UNION {BranchOn(n) : n \in Names}

\* the end-to-end scenarios of the test suites
ScenarioPrograms ==
    {WhileProgram(<<"i">>, 0, 3, 1),
     <<VarDecl("int", NameX, IntLit(10)), VarDecl("int", NameY, IntLit(20)),
       VarDecl("int", <<"z">>, BinaryOp("+", Variable(NameX),
                                        BinaryOp("*", Variable(NameY), IntLit(2)))),
       PrintStmt(Variable(<<"z">>))>>,
     <<VarDecl("int", NameX, IntLit(10)),
       IfStmt(BinaryOp(">", Variable(NameX), IntLit(5)),
              <<PrintStmt(IntLit(1))>>, Block(<<PrintStmt(IntLit(0))>>))>>,
     <<VarDecl("bool", <<"a">>, BoolLit(TRUE)), VarDecl("bool", <<"b">>, BoolLit(FALSE)),
       IfStmt(BinaryOp("&&", Variable(<<"a">>), UnaryOp("!", Variable(<<"b">>))),
              <<PrintStmt(IntLit(1))>>, Block(<<PrintStmt(IntLit(0))>>))>>,
     <<VarDecl("int", <<"n">>, IntLit(5)), VarDecl("int", <<"r">>, IntLit(1)),
       VarDecl("int", <<"i">>, IntLit(1)),
       WhileStmt(BinaryOp("<=", Variable(<<"i">>), Variable(<<"n">>)),
                 <<Assignment(<<"r">>, BinaryOp("*", Variable(<<"r">>), Variable(<<"i">>))),
                   Assignment(<<"i">>, BinaryOp("+", Variable(<<"i">>), IntLit(1)))>>),
       PrintStmt(Variable(<<"r">>))>>}

\* x + 0, 0 + x, x * 1, 1 * x, x * 0, 0 * x and x + (2 - 2)
IdentityExprs ==
    {BinaryOp("+", Variable(NameX), IntLit(0)), BinaryOp("+", IntLit(0), Variable(NameX)),
     BinaryOp("*", Variable(NameX), IntLit(1)), BinaryOp("*", IntLit(1), Variable(NameX)),
     BinaryOp("*", Variable(NameX), IntLit(0)), BinaryOp("*", IntLit(0), Variable(NameX)),
     BinaryOp("+", Variable(NameX), BinaryOp("-", IntLit(2), IntLit(2)))}

\* int x = a; print(e);
IdentityProgram(a, e) == <<VarDecl("int", NameX, IntLit(a)), PrintStmt(e)>>

IdentityPrograms == {IdentityProgram(a, e) : a \in Lits, e \in IdentityExprs}

\* int n = n + 1; print(n);  alone and as the body of a loop of two rounds
SelfInitialized(n) ==
    <<VarDecl("int", n, BinaryOp("+", Variable(n), IntLit(1))), PrintStmt(Variable(n))>>

SelfInitializedInLoop(n) ==
    <<VarDecl("int", <<"i">>, IntLit(0)),
      WhileStmt(BinaryOp("<", Variable(<<"i">>), IntLit(2)),
          SelfInitialized(n)
              \o <<Assignment(<<"i">>, BinaryOp("+", Variable(<<"i">>), IntLit(1)))>>)>>

SelfReferencePrograms ==
    {SelfInitialized(n) : n \in Names} \cup {SelfInitializedInLoop(n) : n \in {NameX, NameY}}
        \cup {<<VarDecl("bool", NameX, UnaryOp("!", Variable(NameX))),
                PrintStmt(Variable(NameX))>>}

\* int n; print(n); n = n + 5;  as the body of a loop of two rounds
BareDeclaredInLoop(n) ==
    <<VarDecl("int", <<"i">>, IntLit(0)),
      WhileStmt(BinaryOp("<", Variable(<<"i">>), IntLit(2)),
          <<VarDecl("int", n, NoNode), PrintStmt(Variable(n)),
            Assignment(n, BinaryOp("+", Variable(n), IntLit(5))),
            Assignment(<<"i">>, BinaryOp("+", Variable(<<"i">>), IntLit(1)))>>)>>

\* the empty program and programs of declarations without initializer
BareDeclarationPrograms ==
    {<<>>} \cup {<<VarDecl(ty, n, NoNode)>> : ty \in {"int", "bool"}, n \in Names}
        \cup {<<VarDecl("int", NameX, NoNode), VarDecl(ty, NameY, NoNode)>> :
                 ty \in {"int", "bool"}}

Programs ==
    {Program(p) : p \in ArithPrograms \cup BoolPrograms \cup IfPrograms \cup WhilePrograms
                        \cup ScopePrograms \cup ErrorPrograms \cup TypingPrograms
                        \cup BranchPrograms \cup IdentityPrograms
                        \cup BareDeclarationPrograms \cup SelfReferencePrograms
                        \cup {BareDeclaredInLoop(n) : n \in Names}
                        \cup ScenarioPrograms}

(***************************************************************************)
(* TinyLangFullCompiler.compile_and_run, one action per phase and one per  *)
(* iteration of the VM's dispatch loop.                                    *)
(***************************************************************************)
VARIABLES
    ast,                \* the argument of compile_and_run
    phase,              \* the position reached in compile_and_run, or the exception
                        \* that ended it
    semantic_analyzer,  \* SemanticAnalyzer: symbol_table, errors
    tac_generator,      \* TACGenerator: instructions, temp_counter, label_counter
    optimized_tac,      \* the list optimize returned
    bytecode_generator, \* BytecodeGenerator: bytecode, labels
    vm,                 \* VirtualMachine: stack, variables, pc, output
    steps,              \* iterations of the dispatch loop so far
    entered,            \* the symbol tables as they were at each enter_scope that
                        \* has not been exited yet
    source,             \* the tokens of the text handed to TinyLangCompiler.parse
    invocation,         \* compile_and_run calls begun on this TinyLangFullCompiler
    exit_status,        \* the status the runner's process ended with, once phase is "exited"
    buffer,             \* the REPL's list of lines
    history             \* every line the REPL has read so far, interrupts included

Exceptions == {"ZeroDivisionError", "IndexError", "TypeError"}

vars == <<ast, phase, semantic_analyzer, tac_generator, optimized_tac,
          bytecode_generator, vm, steps, entered, source, invocation,
          exit_status, buffer, history>>

\* TinyLangFullCompiler.__init__
Constructed ==
    /\ semantic_analyzer = AnalyzerInit
    /\ tac_generator = TACGeneratorInit
    /\ optimized_tac = <<>>
    /\ bytecode_generator = BytecodeGeneratorInit
    /\ vm = VirtualMachineInit
    /\ steps = 0
    /\ entered = <<>>
    /\ invocation = 1
    /\ exit_status = -1
    /\ buffer = <<>>
    /\ history = <<>>

Init ==
    /\ ast \in Programs
    /\ source = <<>>
    /\ phase = "analyze"
    /\ Constructed

\* self.semantic_analyzer.analyze(ast)
Analyze ==
    /\ phase = "analyze"
    /\ semantic_analyzer' = analyze(ast, semantic_analyzer).a
    /\ phase' = "analyzed"
    /\ UNCHANGED <<exit_status, buffer, history, source, invocation, entered, ast, tac_generator, optimized_tac, bytecode_generator, vm, steps>>

\* compile_and_run without the test of the analyzer's errors
HasErrorsIgnored(a) == FALSE

\* if self.semantic_analyzer.errors:
HasErrors(a) == a.errors # <<>>

\* the early return on semantic errors
ReturnErrors ==
    /\ phase = "analyzed"
    /\ HasErrors(semantic_analyzer)
    /\ phase' = "returned"
    /\ UNCHANGED <<exit_status, buffer, history, source, invocation, entered, ast, semantic_analyzer, tac_generator, optimized_tac,
                   bytecode_generator, vm, steps>>

\* self.tac_generator.generate(ast)
GenerateTAC ==
    /\ phase = "analyzed"
    /\ ~HasErrors(semantic_analyzer)
    /\ tac_generator' = generate(ast, tac_generator).g
    /\ phase' = "optimize"
    /\ UNCHANGED <<exit_status, buffer, history, source, invocation, entered, ast, semantic_analyzer, optimized_tac, bytecode_generator, vm, steps>>

\* an optimization step whose report divides by nothing
OptimizeUnreported ==
    /\ phase = "optimize"
    /\ optimized_tac' = optimize(tac_generator.instructions)
    /\ phase' = "bytegen"
    /\ UNCHANGED <<exit_status, buffer, history, source, invocation, entered, ast,
                   semantic_analyzer, tac_generator, bytecode_generator, vm, steps>>

\* optimized_tac = self.optimizer.optimize(...), then the reduction percentage,
\* whose division by original_count raises ZeroDivisionError when it is 0
Optimize ==
    /\ phase = "optimize"
    /\ optimized_tac' = optimize(tac_generator.instructions)
    /\ phase' = IF Len(tac_generator.instructions) = 0 THEN "ZeroDivisionError" ELSE "bytegen"
    /\ UNCHANGED <<exit_status, buffer, history, source, invocation, entered, ast, semantic_analyzer, tac_generator, bytecode_generator, vm, steps>>

\* bytecode = self.bytecode_generator.generate(optimized_tac); execute sets pc = 0
GenerateBytecode ==
    /\ phase = "bytegen"
    /\ bytecode_generator' = BytecodeGenerate(bytecode_generator, optimized_tac)
    /\ vm' = [vm EXCEPT !.pc = 0]
    /\ phase' = "execute"
    /\ UNCHANGED <<exit_status, buffer, history, source, invocation, entered, ast, semantic_analyzer, tac_generator, optimized_tac, steps>>

\* one iteration of the loop of self.vm.execute(bytecode)
Execute ==
    /\ phase = "execute"
    /\ steps < MaxSteps
    /\ LET s == VMStep(vm, bytecode_generator.bytecode)
       IN  /\ vm' = s.vm
           /\ phase' = CASE s.st = "running" -> "execute"
                         [] s.st = "halted" -> "done"
                         [] OTHER -> s.st
    /\ steps' = steps + 1
    /\ UNCHANGED <<exit_status, buffer, history, source, invocation, entered, ast, semantic_analyzer, tac_generator, optimized_tac, bytecode_generator>>

Next ==
    \/ Analyze
    \/ ReturnErrors
    \/ GenerateTAC
    \/ Optimize
    \/ GenerateBytecode
    \/ Execute

Spec == Init /\ [][Next]_vars

(***************************************************************************)
(* The arithmetic harness: TACOptimizer.constant_folding and the VM applied *)
(* to the same list of TAC instructions, one per arithmetic operation, over *)
(* one pair of immediate operands.  The VM executes the unfolded list.      *)
(***************************************************************************)
Int32Max == [bool |-> FALSE, hi |-> 2^16 - 1, lo |-> Digit - 1]
Int32Min == [bool |-> FALSE, hi |-> -(2^16), lo |-> 0]

SmallOperands == {MkInt(n) : n \in -MaxOperand..MaxOperand}
EdgeOperands == {Int32Max, Int32Min}

\* at least one operand of a pair is small
OperandPairs ==
    (SmallOperands \X SmallOperands)
    \cup (EdgeOperands \X SmallOperands)
    \cup (SmallOperands \X EdgeOperands)

ResultName(op) ==
    CASE op = "ADD" -> <<"a", "d", "d">>
      [] op = "SUB" -> <<"s", "u", "b">>
      [] op = "MUL" -> <<"m", "u", "l">>
      [] op = "DIV" -> <<"d", "i", "v">>
      [] op = "MOD" -> <<"m", "o", "d">>
      [] op = "NEG" -> <<"n", "e", "g">>

ArithOpSeq == <<"ADD", "SUB", "MUL", "DIV", "MOD">>

ArithInstructions(a, b) ==
    [i \in 1..5 |-> TACInstruction(ArithOpSeq[i], IntArg(a), IntArg(b),
                                   StrArg(ResultName(ArithOpSeq[i])))]
    \o <<TACInstruction("NEG", IntArg(a), NoneArg, StrArg(ResultName("NEG")))>>

ArithInit ==
    /\ ast = Program(<<>>)
    /\ phase = "fold"
    /\ semantic_analyzer = AnalyzerInit
    /\ \E p \in OperandPairs :
          tac_generator = [TACGeneratorInit EXCEPT !.instructions = ArithInstructions(p[1], p[2])]
    /\ optimized_tac = <<>>
    /\ bytecode_generator = BytecodeGeneratorInit
    /\ vm = VirtualMachineInit
    /\ steps = 0
    /\ entered = <<>>
    /\ source = <<>>
    /\ invocation = 1
    /\ exit_status = -1
    /\ buffer = <<>>
    /\ history = <<>>

\* optimizer.constant_folding(instructions)
FoldOnly ==
    /\ phase = "fold"
    /\ optimized_tac' = constant_folding(tac_generator.instructions)
    /\ phase' = "emit"
    /\ UNCHANGED <<exit_status, buffer, history, source, invocation, entered, ast, semantic_analyzer, tac_generator, bytecode_generator, vm, steps>>

\* bytecode_generator.generate(instructions), the list as it was before folding
EmitUnfolded ==
    /\ phase = "emit"
    /\ bytecode_generator' = BytecodeGenerate(bytecode_generator, tac_generator.instructions)
    /\ vm' = [vm EXCEPT !.pc = 0]
    /\ phase' = "execute"
    /\ UNCHANGED <<exit_status, buffer, history, source, invocation, entered, ast, semantic_analyzer, tac_generator, optimized_tac, steps>>

ArithNext ==
    \/ FoldOnly
    \/ EmitUnfolded
    \/ Execute

ArithSpec == ArithInit /\ [][ArithNext]_vars

\* the operands of the harness and the results the VM stored
OperandA == tac_generator.instructions[1].arg1.v
OperandB == tac_generator.instructions[1].arg2.v
VmResult(op) == vm.variables[ResultName(op)]

InInt32(v) == ~IntLt(v, Int32Min) /\ ~IntLt(Int32Max, v)

(***************************************************************************)
(* Reference execution: VirtualMachine.execute run to the end (or for      *)
(* fuel iterations) on the bytecode emitted from the TAC as generated.     *)
(***************************************************************************)
RECURSIVE RunVM(_, _, _)
RunVM(m, bytecode, fuel) ==
    LET s == VMStep(m, bytecode)
    IN  IF s.st # "running" \/ fuel = 0 THEN s
        ELSE RunVM(s.vm, bytecode, fuel - 1)

UnoptimizedBytecode ==
    BytecodeGenerate(BytecodeGeneratorInit, tac_generator.instructions).bytecode

UnoptimizedRun == RunVM(VirtualMachineInit, UnoptimizedBytecode, 4 * MaxSteps)

\* the names the program declares
RECURSIVE DeclaredIn(_)
DeclaredIn(stmts) ==
    IF stmts = <<>> THEN {}
    ELSE LET n == Head(stmts)
             here == CASE n.node = "VarDecl" -> {n.name}
                       [] n.node = "IfStmt" ->
                            DeclaredIn(n.then_block) \cup DeclaredIn(n.else_block.stmts)
                       [] n.node = "WhileStmt" -> DeclaredIn(n.body)
                       [] OTHER -> {}
         IN  here \cup DeclaredIn(Tail(stmts))

UserNames == DeclaredIn(ast.statements)

SameBinding(v1, v2, n) ==
    /\ (n \in DOMAIN v1) = (n \in DOMAIN v2)
    /\ n \in DOMAIN v1 => v1[n] = v2[n]

(***************************************************************************)
(* C1  Semantic preservation of the optimizer: when the run of the         *)
(* optimized program is over, it has printed the same lines and left the   *)
(* same values in the user's variables as the run of the bytecode emitted  *)
(* from the unoptimized TAC.                                               *)
(***************************************************************************)
C1_OptimizerPreservesSemantics ==
    phase = "done" =>
        LET ref == UnoptimizedRun
        IN  /\ ref.st = "halted"
            /\ vm.output = ref.vm.output
            /\ \A n \in UserNames : SameBinding(vm.variables, ref.vm.variables, n)

(***************************************************************************)
(* C2  Integer arithmetic in the VM is 32-bit two's complement: the        *)
(* results of ADD, SUB, MUL and NEG lie in [-2^31, 2^31 - 1], and          *)
(* 1 + INT_MAX is INT_MIN.                                                 *)
(***************************************************************************)
C2_ArithmeticWraps32 ==
    phase = "done" =>
        /\ \A op \in {"ADD", "SUB", "MUL", "NEG"} : InInt32(VmResult(op))
        /\ (OperandA = One /\ OperandB = Int32Max) => VmResult("ADD") = Int32Min

(***************************************************************************)
(* C3  Division and modulo by zero never raise: with b = 0 the VM's DIV    *)
(* and MOD push 0 and execution goes on to HALT, and constant folding      *)
(* turns a / 0 and a % 0 into ASSIGN 0.                                    *)
(***************************************************************************)
\* the opcode the VM has just executed
JustExecuted ==
    IF phase \in {"execute", "done"} /\ steps > 0 /\ vm.pc > 0
    THEN bytecode_generator.bytecode[vm.pc].op
    ELSE "none"

FoldedTo(op, v) ==
    \E i \in DOMAIN optimized_tac :
        optimized_tac[i] = TACInstruction("ASSIGN", IntArg(v), NoneArg, StrArg(ResultName(op)))

C3_DivModByZeroIsZero ==
    ~Truthy(OperandB) =>
        /\ phase \notin Exceptions
        /\ (phase = "execute" /\ JustExecuted \in {"DIV", "MOD"}) => vm.stack = <<Zero>>
        /\ phase = "done" => VmResult("DIV") = Zero /\ VmResult("MOD") = Zero
        /\ phase \notin {"fold"} => FoldedTo("DIV", Zero) /\ FoldedTo("MOD", Zero)

C3_Witness ==
    /\ phase = "done"
    /\ ~Truthy(OperandB) /\ Truthy(OperandA)
    /\ VmResult("DIV") = Zero /\ VmResult("MOD") = Zero
    /\ FoldedTo("DIV", Zero) /\ FoldedTo("MOD", Zero)

(***************************************************************************)
(* C4  For b # 0 the VM's DIV pushes q = floor(a / b) and MOD pushes       *)
(* r = a - b * q: a = q * b + r with r = 0 or r of the sign of b and       *)
(* smaller than b in magnitude; and constant folding yields, for each of   *)
(* the five arithmetic operators, the value the VM computes.               *)
(***************************************************************************)
SignOfDivisor(r, b) ==
    IF b.hi < 0 THEN IntLt(b, r) /\ ~IntLt(Zero, r)
    ELSE ~IntLt(r, Zero) /\ IntLt(r, b)

C4_FlooredDivisionAndFolding ==
    phase = "done" =>
        /\ Truthy(OperandB) =>
              LET q == VmResult("DIV")
                  r == VmResult("MOD")
              IN  /\ IntEq(OperandA, PyAdd(PyMul(q, OperandB), r))
                  /\ SignOfDivisor(r, OperandB)
        /\ \A i \in 1..5 : FoldedTo(ArithOpSeq[i], VmResult(ArithOpSeq[i]))

C4_Witness ==
    /\ phase = "done"
    /\ OperandA = MkInt(-3) /\ OperandB = MkInt(2)
    /\ VmResult("DIV") = MkInt(-2)
    /\ VmResult("MOD") = One
    /\ FoldedTo("DIV", VmResult("DIV"))

(***************************************************************************)
(* C5  Booleans are 1/0 from TAC generation onward: no immediate of the    *)
(* TAC is a bool, and a program that prints only Bool-typed expressions    *)
(* outputs only the lines 1 and 0.                                         *)
(***************************************************************************)
\* every statement is a declaration or the print of a Bool-typed expression
RECURSIVE PrintsOnlyBool(_, _)
PrintsOnlyBool(stmts, a) ==
    IF stmts = <<>> THEN TRUE
    ELSE LET n == Head(stmts)
         IN  /\ \/ n.node = "VarDecl"
                \/ n.node = "PrintStmt" /\ analyze(n.expression, a).ty = "bool"
             /\ PrintsOnlyBool(Tail(stmts), analyze(n, a).a)

Immediates ==
    {tac_generator.instructions[i].arg1 : i \in DOMAIN tac_generator.instructions}
    \cup {tac_generator.instructions[i].arg2 : i \in DOMAIN tac_generator.instructions}

C5_BooleansAreOneOrZero ==
    /\ \A arg \in Immediates : arg.k = "int" => ~arg.v.bool
    /\ (phase = "done" /\ PrintsOnlyBool(ast.statements, AnalyzerInit)) =>
           \A i \in DOMAIN vm.output : vm.output[i] \in {<<"1">>, <<"0">>}

(***************************************************************************)
(* C6  After bytecode emission every JUMP and JUMP_IF_FALSE argument is an *)
(* integer index in [0, len(bytecode)), no label string remains, and a     *)
(* label after the last TAC instruction resolves to the index of the one   *)
(* trailing HALT.                                                          *)
(***************************************************************************)
Bytecode == bytecode_generator.bytecode

Jumps == {i \in DOMAIN Bytecode : Bytecode[i].op \in {"JUMP", "JUMP_IF_FALSE"}}

\* the labels no other TAC instruction follows
TrailingLabels ==
    {optimized_tac[i].result.s : i \in
        {k \in DOMAIN optimized_tac : \A j \in k..Len(optimized_tac) : optimized_tac[j].op = "LABEL"}}

JumpsTo(l) ==
    {optimized_tac[i].result.s : i \in
        {k \in DOMAIN optimized_tac : optimized_tac[k].op \in {"GOTO", "IF_FALSE"}}} \cap {l}

C6_JumpTargetsResolved ==
    Bytecode # <<>> =>
        /\ \A i \in Jumps :
              /\ Bytecode[i].arg.k = "int"
              /\ Bytecode[i].arg.v.hi = 0
              /\ Bytecode[i].arg.v.lo \in 0..(Len(Bytecode) - 1)
        /\ Cardinality({i \in DOMAIN Bytecode : Bytecode[i].op = "HALT"}) = 1
        /\ Bytecode[Len(Bytecode)].op = "HALT"
        /\ \A l \in TrailingLabels : bytecode_generator.labels[l] = Len(Bytecode) - 1

C6_Witness ==
    /\ phase = "done"
    /\ \E l \in TrailingLabels : JumpsTo(l) # {}
    /\ \E i \in Jumps : Bytecode[i].arg = IntArg(MkInt(Len(Bytecode) - 1))
    /\ \E i \in Jumps : Bytecode[i].op = "JUMP_IF_FALSE"
    /\ Bytecode[Len(Bytecode)].op = "HALT"

(***************************************************************************)
(* C7  While the VM executes, the operand stack is empty whenever pc is at *)
(* the first bytecode of a TAC instruction's lowering, right after its     *)
(* last bytecode, or at HALT; and no instruction pops an empty stack.      *)
(***************************************************************************)
\* the address where the lowering of the TAC instructions after the first k begins
LoweredLen(k) ==
    Len(FirstPass(SubSeq(optimized_tac, 1, k), BytecodeGeneratorInit).bytecode)

Boundaries == {LoweredLen(k) : k \in 0..Len(optimized_tac)}

C7_StackEmptyAtBoundaries ==
    /\ phase # "IndexError"
    /\ (phase \in {"execute", "done"} /\ vm.pc \in Boundaries) => vm.stack = <<>>
    /\ phase = "done" => Bytecode[vm.pc + 1].op = "HALT" /\ vm.pc \in Boundaries

C7_Witness ==
    /\ phase = "done"
    /\ vm.stack = <<>>
    /\ Len(vm.output) >= 2
    /\ \E i \in Jumps : Bytecode[i].op = "JUMP" /\ Bytecode[i].arg.v.lo < i - 1
    /\ steps > Len(Bytecode)

(***************************************************************************)
(* C8  In the generated TAC each temporary tN is the result of at most one *)
(* instruction, that instruction precedes every use of tN, and no          *)
(* instruction writes a declared variable whose name is also a temporary.  *)
(***************************************************************************)
Instructions == tac_generator.instructions

Temporaries == {TempName(i) : i \in 0..(tac_generator.temp_counter - 1)}

Writes(name) ==
    {i \in DOMAIN Instructions :
        /\ Instructions[i].op \notin {"LABEL", "GOTO", "IF_FALSE", "PRINT"}
        /\ Instructions[i].result = StrArg(name)}

Uses(name) ==
    {i \in DOMAIN Instructions :
        StrArg(name) \in {Instructions[i].arg1, Instructions[i].arg2}}

C8_TemporariesSingleAssignment ==
    /\ \A t \in Temporaries :
          /\ Cardinality(Writes(t)) <= 1
          /\ \A u \in Uses(t) : \E w \in Writes(t) : w < u
    /\ \A n \in UserNames : Writes(n) # {} => n \notin Temporaries

(***************************************************************************)
(* C9  The optimizer is idempotent: optimizing the list it returned gives  *)
(* that list again.                                                        *)
(***************************************************************************)
C9_OptimizeIdempotent ==
    phase \in {"bytegen", "execute", "done"} => optimize(optimized_tac) = optimized_tac

(***************************************************************************)
(* C10  Once semantic analysis has recorded an error no later phase runs:  *)
(* no TAC instruction, no bytecode, no output; and                         *)
(* int x = 10; print(y); records exactly one undeclared-reference error.   *)
(***************************************************************************)
UndeclaredExample ==
    Program(<<VarDecl("int", NameX, IntLit(10)), PrintStmt(Variable(NameY))>>)

RECURSIVE Resolve(_, _)
Resolve(env, name) ==
    IF env = <<>> THEN "unbound"
    ELSE IF name \in DOMAIN env[Len(env)] THEN env[Len(env)][name]
    ELSE Resolve(SubSeq(env, 1, Len(env) - 1), name)

\* the type of an expression under the typing rules; "ill" when a rule is broken
RECURSIVE ExprType(_, _)
ExprType(e, env) ==
    CASE e.node = "Literal" -> e.lit_type
      [] e.node = "Variable" ->
           IF Resolve(env, e.name) = "unbound" THEN "ill" ELSE Resolve(env, e.name)
      [] e.node = "BinaryOp" ->
           LET l == ExprType(e.left, env)
               r == ExprType(e.right, env)
           IN  IF e.op \in ArithOps THEN (IF l = "int" /\ r = "int" THEN "int" ELSE "ill")
               ELSE IF e.op \in OrderOps THEN (IF l = "int" /\ r = "int" THEN "bool" ELSE "ill")
               ELSE IF e.op \in EqOps THEN (IF l = r /\ l # "ill" THEN "bool" ELSE "ill")
               ELSE (IF l = "bool" /\ r = "bool" THEN "bool" ELSE "ill")
      [] e.node = "UnaryOp" ->
           LET o == ExprType(e.operand, env)
           IN  IF e.op = "-" THEN (IF o = "int" THEN "int" ELSE "ill")
               ELSE (IF o = "bool" THEN "bool" ELSE "ill")

\* whether the statements obey the rules, and the scopes after them
RECURSIVE WellTyped(_, _)
WellTyped(stmts, env) ==
    IF stmts = <<>> THEN [ok |-> TRUE, env |-> env]
    ELSE LET n == Head(stmts)
             k == Len(env)
             inner == Append(env, EmptyDict)
             declared == [env EXCEPT ![k] = DictSet(@, n.name, n.var_type)]
             ok == CASE n.node = "VarDecl" ->
                          /\ n.name \notin DOMAIN env[k]
                          /\ n.value.node # "None" => ExprType(n.value, declared) = n.var_type
                     [] n.node = "Assignment" ->
                          /\ Resolve(env, n.name) # "unbound"
                          /\ ExprType(n.value, env) = Resolve(env, n.name)
                     [] n.node = "IfStmt" ->
                          /\ ExprType(n.condition, env) = "bool"
                          /\ WellTyped(n.then_block, inner).ok
                          /\ ~n.else_block.is_none => WellTyped(n.else_block.stmts, inner).ok
                     [] n.node = "WhileStmt" ->
                          /\ ExprType(n.condition, env) = "bool"
                          /\ WellTyped(n.body, inner).ok
                     [] n.node = "PrintStmt" -> ExprType(n.expression, env) # "ill"
         IN  IF ~ok THEN [ok |-> FALSE, env |-> env]
             ELSE WellTyped(Tail(stmts), IF n.node = "VarDecl" THEN declared ELSE env)

\* the operator nodes of an expression, of a list of statements
RECURSIVE OperatorNodes(_)
OperatorNodes(e) ==
    CASE e.node = "BinaryOp" -> {e} \cup OperatorNodes(e.left) \cup OperatorNodes(e.right)
      [] e.node = "UnaryOp" -> {e} \cup OperatorNodes(e.operand)
      [] OTHER -> {}

RECURSIVE OperatorNodesIn(_)
OperatorNodesIn(stmts) ==
    IF stmts = <<>> THEN {}
    ELSE LET n == Head(stmts)
             here == CASE n.node \in {"VarDecl", "Assignment"} -> OperatorNodes(n.value)
                       [] n.node = "PrintStmt" -> OperatorNodes(n.expression)
                       [] n.node = "IfStmt" ->
                            OperatorNodes(n.condition) \cup OperatorNodesIn(n.then_block)
                            \cup OperatorNodesIn(n.else_block.stmts)
                       [] n.node = "WhileStmt" ->
                            OperatorNodes(n.condition) \cup OperatorNodesIn(n.body)
                       [] OTHER -> {}
         IN  here \cup OperatorNodesIn(Tail(stmts))

C11_NoErrorIffWellTyped ==
    phase \notin {"analyze", "fold", "emit"} =>
        /\ (semantic_analyzer.errors = <<>>) <=> WellTyped(ast.statements, <<EmptyDict>>).ok
        /\ \A e \in OperatorNodesIn(ast.statements) :
              analyze(e, semantic_analyzer).ty =
                  IF e.op \in ArithOps THEN "int" ELSE "bool"

C11_Witness ==
    /\ phase = "analyzed"
    /\ semantic_analyzer.errors = <<>>
    /\ WellTyped(ast.statements, <<EmptyDict>>).ok
    /\ \E i \in DOMAIN ast.statements :
          /\ ast.statements[i].node = "IfStmt"
          /\ ast.statements[i].condition.node = "BinaryOp"
          /\ ast.statements[i].condition.op = "&&"
          /\ ~ast.statements[i].else_block.is_none

(***************************************************************************)
(* C12  Errors are accumulated and analysis continues: every violation     *)
(* that can be told from the program text alone (an operator applied to a  *)
(* literal of the wrong type, a reference to a name declared nowhere) is   *)
(* among the errors recorded, wherever in the program it occurs.           *)
(***************************************************************************)
IsLit(e, ty) == e.node = "Literal" /\ e.lit_type = ty

\* the kinds of error an operator node calls for whatever the scopes hold
ExpectedKinds(e) ==
    IF e.node = "UnaryOp"
    THEN (IF e.op = "-" /\ IsLit(e.operand, "bool") THEN {"unary minus operand"} ELSE {})
         \cup (IF e.op = "!" /\ IsLit(e.operand, "int") THEN {"logical not operand"} ELSE {})
    ELSE LET onBool == IsLit(e.left, "bool") \/ IsLit(e.right, "bool")
             onInt == IsLit(e.left, "int") \/ IsLit(e.right, "int")
         IN  (IF e.op \in ArithOps /\ onBool THEN {"arithmetic operands"} ELSE {})
             \cup (IF e.op \in OrderOps /\ onBool THEN {"comparison operands"} ELSE {})
             \cup (IF e.op \in LogicOps /\ onInt THEN {"logical operands"} ELSE {})

\* the names an expression, a list of statements, refers to or assigns
RECURSIVE ReferencedBy(_)
ReferencedBy(e) ==
    CASE e.node = "Variable" -> {e.name}
      [] e.node = "BinaryOp" -> ReferencedBy(e.left) \cup ReferencedBy(e.right)
      [] e.node = "UnaryOp" -> ReferencedBy(e.operand)
      [] OTHER -> {}

RECURSIVE ReferencedIn(_)
ReferencedIn(stmts) ==
    IF stmts = <<>> THEN {}
    ELSE LET n == Head(stmts)
             here == CASE n.node = "VarDecl" -> ReferencedBy(n.value)
                       [] n.node = "Assignment" -> {n.name} \cup ReferencedBy(n.value)
                       [] n.node = "PrintStmt" -> ReferencedBy(n.expression)
                       [] n.node = "IfStmt" ->
                            ReferencedBy(n.condition) \cup ReferencedIn(n.then_block)
                            \cup ReferencedIn(n.else_block.stmts)
                       [] n.node = "WhileStmt" ->
                            ReferencedBy(n.condition) \cup ReferencedIn(n.body)
                       [] OTHER -> {}
         IN  here \cup ReferencedIn(Tail(stmts))

Recorded == {semantic_analyzer.errors[i] : i \in DOMAIN semantic_analyzer.errors}

C12_EveryViolationReported ==
    phase \notin {"analyze", "fold", "emit"} =>
        /\ \A e \in OperatorNodesIn(ast.statements) :
              \A k \in ExpectedKinds(e) : \E r \in Recorded : r.kind = k
        /\ \A n \in ReferencedIn(ast.statements) \ UserNames :
              Err("undeclared", n, "", "") \in Recorded

(***************************************************************************)
(* C13  A redeclaration in the same scope records an error and keeps the   *)
(* first binding: the name still resolves to the symbol of the first       *)
(* declaration, and the statements after it are checked as if the second   *)
(* declaration were not there.                                             *)
(***************************************************************************)
\* the top-level declarations of a name already declared at top level
Redeclarations ==
    {j \in DOMAIN ast.statements :
        /\ ast.statements[j].node = "VarDecl"
        /\ \E i \in 1..(j - 1) : /\ ast.statements[i].node = "VarDecl"
                                 /\ ast.statements[i].name = ast.statements[j].name}

FirstDeclaration(name) ==
    LET first == CHOOSE i \in DOMAIN ast.statements :
                    /\ ast.statements[i].node = "VarDecl" /\ ast.statements[i].name = name
                    /\ \A h \in 1..(i - 1) : ~(/\ ast.statements[h].node = "VarDecl"
                                               /\ ast.statements[h].name = name)
    IN  ast.statements[first]

Without(stmts, j) == SubSeq(stmts, 1, j - 1) \o SubSeq(stmts, j + 1, Len(stmts))

NotARedeclarationError(e) == e.kind # "already declared"

C13_FirstBindingRetained ==
    phase \notin {"analyze", "fold", "emit"} =>
        \A j \in Redeclarations :
            LET name == ast.statements[j].name
            IN  /\ Err("already declared", name, "", "") \in Recorded
                /\ lookup(semantic_analyzer.symbol_table, name)
                       = Symbol(name, FirstDeclaration(name).var_type, 0)
                /\ Cardinality(Redeclarations) = 1 =>
                       SelectSeq(semantic_analyzer.errors, NotARedeclarationError)
                           = AnalyzeStmts(Without(ast.statements, j), AnalyzerInit).errors

C13_Witness ==
    /\ phase = "returned"
    /\ ast = Program(<<VarDecl("int", NameX, IntLit(0)), VarDecl("bool", NameX, BoolLit(TRUE)),
                       Assignment(NameX, IntLit(1)),
                       PrintStmt(BinaryOp("+", Variable(NameX), IntLit(1)))>>)
    /\ semantic_analyzer.errors = <<Err("already declared", NameX, "", "")>>
    /\ lookup(semantic_analyzer.symbol_table, NameX).var_type = "int"

(***************************************************************************)
(* The symbol table on its own: any sequence of enter_scope, declare and   *)
(* exit_scope over two names and both types, nested MaxDepth deep.         *)
(***************************************************************************)
SymbolTableNow == semantic_analyzer.symbol_table

ScopeNames == {NameX, NameY}

ScopeInit ==
    /\ ast = Program(<<>>)
    /\ source = <<>>
    /\ phase = "scopes"
    /\ Constructed

EnterScope ==
    /\ phase = "scopes"
    /\ SymbolTableNow.current_scope < MaxDepth
    /\ semantic_analyzer' = [semantic_analyzer EXCEPT !.symbol_table = enter_scope(@)]
    /\ entered' = Append(entered, SymbolTableNow)
    /\ UNCHANGED <<exit_status, buffer, history, source, invocation, ast, phase, tac_generator, optimized_tac, bytecode_generator, vm, steps>>

Declare ==
    /\ phase = "scopes"
    /\ \E n \in ScopeNames, ty \in {"int", "bool"} :
          semantic_analyzer' = [semantic_analyzer EXCEPT !.symbol_table = declare(@, n, ty)]
    /\ UNCHANGED <<exit_status, buffer, history, source, invocation, entered, ast, phase, tac_generator, optimized_tac, bytecode_generator, vm, steps>>

ExitScope ==
    /\ phase = "scopes"
    /\ semantic_analyzer' = [semantic_analyzer EXCEPT !.symbol_table = exit_scope(@)]
    /\ entered' = IF SymbolTableNow.current_scope > 0
                  THEN SubSeq(entered, 1, Len(entered) - 1)
                  ELSE entered
    /\ UNCHANGED <<exit_status, buffer, history, source, invocation, ast, phase, tac_generator, optimized_tac, bytecode_generator, vm, steps>>

ScopeNext ==
    \/ EnterScope
    \/ Declare
    \/ ExitScope

ScopeSpec == ScopeInit /\ [][ScopeNext]_vars

(***************************************************************************)
(* C14  Shadowing does not outlive its scope: lookup returns the innermost *)
(* live declaration, and leaving the current scope makes every name        *)
(* resolve to what it resolved to when the scope was entered; a name       *)
(* declared only in the scope left no longer resolves.                     *)
(***************************************************************************)
\* the levels, up to the current one, whose scope holds the name
LiveLevels(t, n) == {i \in 0..t.current_scope : n \in DOMAIN t.scopes[i + 1]}

DeepestLevel(levels) == CHOOSE i \in levels : \A j \in levels : j <= i

\* lookup returns the declaration of the deepest live level that has one
InnermostLive ==
    \A n \in ScopeNames :
        LET live == LiveLevels(SymbolTableNow, n)
            found == lookup(SymbolTableNow, n)
        IN  /\ live = {} => found = NoSymbol
            /\ live # {} =>
                  /\ found = SymbolTableNow.scopes[DeepestLevel(live) + 1][n]
                  /\ found.scope_level = DeepestLevel(live)
                  /\ found.name = n

\* entering a scope changes no resolution, leaving it restores those of the
\* matching enter_scope, and a declaration changes only a name not yet
\* declared at the current level, to a symbol of that level
ScopeStepRestores ==
    LET before == SymbolTableNow
        after == SymbolTableNow'
    IN  \A n \in ScopeNames :
            CASE after.current_scope > before.current_scope ->
                   lookup(after, n) = lookup(before, n)
              [] after.current_scope < before.current_scope ->
                   lookup(after, n) = lookup(entered[Len(entered)], n)
              [] OTHER ->
                   \/ lookup(after, n) = lookup(before, n)
                   \/ /\ lookup(before, n).scope_level < before.current_scope
                      /\ lookup(after, n).scope_level = before.current_scope

C14_ShadowingEndsWithScope ==
    [][phase = "scopes" => ScopeStepRestores /\ InnermostLive']_vars

C14_Witness ==
    /\ phase = "scopes"
    /\ SymbolTableNow.current_scope = 1
    /\ lookup(SymbolTableNow, NameX) = Symbol(NameX, "bool", 1)
    /\ lookup(exit_scope(SymbolTableNow), NameX) = Symbol(NameX, "int", 0)
    /\ lookup(SymbolTableNow, NameY) = Symbol(NameY, "int", 1)
    /\ lookup(exit_scope(SymbolTableNow), NameY) = NoSymbol

(***************************************************************************)
(* C15  A variable declared in a block under the name of an outer variable *)
(* is a separate binding: in  T n = a; if (c) { T' n = b; } print(n);  the  *)
(* print after the block outputs a, the value n had before the block.      *)
(***************************************************************************)
\* T n = a; if (c) { T' n = b; } print(n);
DeclaresAgainInBlock ==
    /\ Len(ast.statements) = 3
    /\ ast.statements[1].node = "VarDecl"
    /\ ast.statements[1].value.node = "Literal"
    /\ ast.statements[2].node = "IfStmt"
    /\ ast.statements[2].else_block.is_none
    /\ Len(ast.statements[2].then_block) = 1
    /\ ast.statements[2].then_block[1].node = "VarDecl"
    /\ ast.statements[2].then_block[1].name = ast.statements[1].name
    /\ ast.statements[2].then_block[1].value.node = "Literal"
    /\ ast.statements[3] = PrintStmt(Variable(ast.statements[1].name))

C15_BlockBindingIsSeparate ==
    (phase = "done" /\ DeclaresAgainInBlock) =>
        vm.output = <<PyStr(ast.statements[1].value.value)>>

(***************************************************************************)
(* The value of an expression by the language's rules, over the integers   *)
(* and the booleans, with the variables' values given.                     *)
(***************************************************************************)
RECURSIVE RefValue(_, _)
RefValue(e, env) ==
    IF e.node = "Literal"
    THEN (IF e.lit_type = "bool" THEN e.value = PyTrue ELSE e.value.hi * Digit + e.value.lo)
    ELSE IF e.node = "Variable" THEN env[e.name]
    ELSE IF e.node = "UnaryOp"
    THEN (IF e.op = "-" THEN 0 - RefValue(e.operand, env) ELSE ~RefValue(e.operand, env))
    ELSE LET l == RefValue(e.left, env)
             r == RefValue(e.right, env)
         IN  CASE e.op = "+" -> l + r
               [] e.op = "-" -> l - r
               [] e.op = "*" -> l * r
               [] e.op = "/" -> IF r = 0 THEN 0
                                ELSE IF r > 0 THEN l \div r ELSE (0 - l) \div (0 - r)
               [] e.op = "%" -> IF r = 0 THEN 0
                                ELSE IF r > 0 THEN l % r ELSE 0 - ((0 - l) % (0 - r))
               [] e.op = "<" -> l < r
               [] e.op = ">" -> l > r
               [] e.op = "<=" -> l <= r
               [] e.op = ">=" -> l >= r
               [] e.op = "==" -> l = r
               [] e.op = "!=" -> l # r
               [] e.op = "&&" -> l /\ r
               [] e.op = "||" -> l \/ r

\* the line print outputs for a natural number
Line(k) == NatStr(MkInt(k))

(***************************************************************************)
(* C16  If/else executes exactly one branch: in                            *)
(*   int n = a; if (c) { print(1); } [else { print(0); }] print(2);        *)
(* the output is 1, 2 when c is true and 0, 2 (2 alone without else) when  *)
(* c is false, no instruction is executed twice, and the If/Else program   *)
(* of the test suite prints only 1.                                        *)
(***************************************************************************)
BranchOutput(a, n, c, withElse) ==
    IF RefValue(c, (n :> a)) THEN <<Line(1), Line(2)>>
    ELSE IF withElse THEN <<Line(0), Line(2)>>
    ELSE <<Line(2)>>

IsPrefix(s, t) == Len(s) <= Len(t) /\ s = SubSeq(t, 1, Len(s))

IfElseTest ==
    Program(<<VarDecl("int", NameX, IntLit(10)),
              IfStmt(BinaryOp(">", Variable(NameX), IntLit(5)),
                     <<PrintStmt(IntLit(1))>>, Block(<<PrintStmt(IntLit(0))>>))>>)

C16_ExactlyOneBranch ==
    /\ \A n \in Names : \A a \in Lits, c \in Conds(n), w \in BOOLEAN :
          (ast = Program(BranchProgram(n, a, c, w)) /\ phase \in {"execute", "done"}) =>
              /\ IsPrefix(vm.output, BranchOutput(a, n, c, w))
              /\ phase = "done" => vm.output = BranchOutput(a, n, c, w)
              /\ \A i \in Jumps : Bytecode[i].arg.v.lo >= i
              /\ steps <= Len(Bytecode)
    /\ (ast = IfElseTest /\ phase = "done") => vm.output = <<Line(1)>>

C16_Witness ==
    /\ phase = "done"
    /\ ast = Program(BranchProgram(NameX, 1, BinaryOp("<", Variable(NameX), IntLit(1)), TRUE))
    /\ vm.output = <<Line(0), Line(2)>>

(***************************************************************************)
(* C17  A while loop evaluates its condition before every iteration: in    *)
(*   int n = a; while (n < b) { print(n); n = n + c; }                     *)
(* the body runs only on a value of n below b, the run is the prologue,    *)
(* one pass through condition, body and back jump per line printed, and a  *)
(* last evaluation of the condition, found false, that leaves the loop     *)
(* with n >= b; with an ordinary variable the lines are a, a + c, ... ;    *)
(* the counter loop prints 0, 1, 2 and the factorial loop prints 120.      *)
(***************************************************************************)
\* the lines a, a + c, ... below b, at most fuel of them
RECURSIVE LoopLines(_, _, _, _)
LoopLines(v, b, c, fuel) ==
    IF v >= b \/ fuel = 0 THEN <<>> ELSE <<Line(v)>> \o LoopLines(v + c, b, c, fuel - 1)

\* the bytecodes of the loop: the conditional jump, the back jump, the
\* address the back jump returns to
ExitJump == CHOOSE i \in Jumps : Bytecode[i].op = "JUMP_IF_FALSE"
BackJump == CHOOSE i \in Jumps : Bytecode[i].op = "JUMP"
LoopStart == Bytecode[BackJump].arg.v.lo

WhileLoopRuns(n, a, b, c) ==
    /\ \A i \in DOMAIN vm.output : \E v \in 0..(b - 1) : vm.output[i] = Line(v)
    /\ Cardinality(Jumps) = 2
    /\ LoopStart < ExitJump /\ ExitJump < BackJump
    /\ Bytecode[ExitJump].arg.v.lo = BackJump
    /\ Bytecode[LoopStart + 1] = BytecodeInstruction("PUSH", IntArg(MkInt(b)))
    /\ phase = "done" =>
          /\ steps = LoopStart + Len(vm.output) * (BackJump - LoopStart)
                       + (ExitJump - LoopStart) + 1
          /\ ~IntLt(vm.variables[n], MkInt(b))
    /\ n = NameX => vm.output = LoopLines(a, b, c, Len(vm.output))
    /\ (n = NameX /\ phase = "done") => vm.output = LoopLines(a, b, c, Len(vm.output) + 1)

CounterTest == Program(WhileProgram(<<"i">>, 0, 3, 1))

FactorialTest ==
    Program(<<VarDecl("int", <<"n">>, IntLit(5)), VarDecl("int", <<"r">>, IntLit(1)),
              VarDecl("int", <<"i">>, IntLit(1)),
              WhileStmt(BinaryOp("<=", Variable(<<"i">>), Variable(<<"n">>)),
                  <<Assignment(<<"r">>, BinaryOp("*", Variable(<<"r">>), Variable(<<"i">>))),
                    Assignment(<<"i">>, BinaryOp("+", Variable(<<"i">>), IntLit(1)))>>),
              PrintStmt(Variable(<<"r">>))>>)

C17_WhileReevaluatesCondition ==
    phase \in {"execute", "done"} =>
        /\ \A n \in Names, a \in Lits, b \in Lits, c \in Lits :
              ast = Program(WhileProgram(n, a, b, c)) => WhileLoopRuns(n, a, b, c)
        /\ ast = CounterTest =>
              /\ IsPrefix(vm.output, <<Line(0), Line(1), Line(2)>>)
              /\ phase = "done" => vm.output = <<Line(0), Line(1), Line(2)>>
        /\ (ast = FactorialTest /\ phase = "done") => vm.output = <<Line(120)>>

C17_Witness ==
    /\ phase = "done"
    /\ ast = CounterTest
    /\ vm.output = <<Line(0), Line(1), Line(2)>>
    /\ vm.variables[<<"i">>] = MkInt(3)

(***************************************************************************)
(* TinyLangCompiler.parse (lexer_parser.py).  The source is the sequence   *)
(* of tokens the lexer delivers: [type, text] with the text of a named     *)
(* terminal (TYPE, IDENTIFIER, INTEGER, BOOLEAN) as a Python str, and for  *)
(* an anonymous terminal ("+", "(", "if", ...) the literal as type.  The   *)
(* parse tree is the one tree the grammar gives; Lark drops the anonymous  *)
(* tokens from the children handed to the ASTBuilder callbacks.            *)
(***************************************************************************)
Named(type, text) == [type |-> type, text |-> text]
Anon(literal) == [type |-> literal, text |-> <<>>]

NamedTerminals == {"TYPE", "IDENTIFIER", "INTEGER", "BOOLEAN"}

\* the node a callback returns when it raises IndexError
IndexErrorNode == [node |-> "IndexError"]

Failed(n) == n.node = "IndexError"

\* int(items[0]) for a token matching /[0-9]+/
RECURSIVE DecimalValue(_)
DecimalValue(text) ==
    IF text = <<>> THEN 0
    ELSE LET d == CHOOSE k \in 0..9 : DigitChars[k + 1] = text[Len(text)]
         IN  DecimalValue(SubSeq(text, 1, Len(text) - 1)) * 10 + d

int_literal(items) == Literal(MkInt(DecimalValue(items[1].text)), "int")

bool_literal(items) == Literal(PyBool(items[1].text = <<"t", "r", "u", "e">>), "bool")

variable(items) == Variable(items[1].text)

\* or_op ... mod_op: the rule's alias names the operator, items are the operands
binary_op(op, items) ==
    IF Failed(items[1]) \/ Failed(items[2]) THEN IndexErrorNode
    ELSE BinaryOp(op, items[1], items[2])

\* op = str(items[0]); operand = items[1]
unary_op(items) ==
    IF Len(items) < 2 \/ Failed(items[1]) THEN IndexErrorNode
    ELSE UnaryOp(items[1], items[2])

\* the operators of or_expr, and_expr, equality, comparison, term, factor
LevelOps ==
    <<{"||"}, {"&&"}, {"==", "!="}, {"<", ">", "<=", ">="}, {"+", "-"}, {"*", "/", "%"}>>

\* tokens an operand can end with: what follows is a binary operator
EndsOperand(tok) == tok.type \in {"INTEGER", "IDENTIFIER", "BOOLEAN", ")"}

Count(toks, type, upto) == Cardinality({j \in 1..upto : toks[j].type = type})

\* positions of the level's operators outside parentheses, in binary position
OperatorsAt(toks, level) ==
    {i \in 2..Len(toks) :
        /\ toks[i].type \in LevelOps[level]
        /\ EndsOperand(toks[i - 1])
        /\ Count(toks, "(", i) = Count(toks, ")", i)}

\* a right-recursive reading of the binary rules: the first operator splits
First(S) == CHOOSE i \in S : \A j \in S : i <= j

\* the left-recursive rules (term: term "+" factor): the last operator splits
Last(S) == CHOOSE i \in S : \A j \in S : j <= i

\* the AST of an expression; levels 1..6 are the left-recursive binary rules,
\* 7 is unary, 8 is primary
RECURSIVE ParseExpression(_, _)
ParseExpression(toks, level) ==
    IF level <= 6
    THEN IF OperatorsAt(toks, level) = {} THEN ParseExpression(toks, level + 1)
         ELSE LET i == Last(OperatorsAt(toks, level))
              IN  binary_op(toks[i].type,
                            <<ParseExpression(SubSeq(toks, 1, i - 1), level),
                              ParseExpression(SubSeq(toks, i + 1, Len(toks)), level + 1)>>)
    ELSE IF level = 7
    THEN IF toks[1].type \in {"-", "!"}
         THEN unary_op(<<ParseExpression(Tail(toks), 7)>>)
         ELSE ParseExpression(toks, 8)
    ELSE CASE toks[1].type = "INTEGER" -> int_literal(toks)
           [] toks[1].type = "BOOLEAN" -> bool_literal(toks)
           [] toks[1].type = "IDENTIFIER" -> variable(toks)
           [] toks[1].type = "(" -> ParseExpression(SubSeq(toks, 2, Len(toks) - 1), 1)

\* the first position from `from` on that holds a token of the type
Next1(toks, type, from) ==
    CHOOSE i \in from..Len(toks) :
        toks[i].type = type /\ \A j \in from..(i - 1) : toks[j].type # type

\* the ")" that closes the "(" at position open
Closing(toks, open) ==
    CHOOSE i \in (open + 1)..Len(toks) :
        /\ Count(toks, "(", i) = Count(toks, ")", i) + Count(toks, "(", open) - 1
                                 - Count(toks, ")", open)
        /\ \A j \in (open + 1)..(i - 1) :
              Count(toks, "(", j) # Count(toks, ")", j) + Count(toks, "(", open) - 1
                                    - Count(toks, ")", open)

var_decl(items) ==
    LET value == IF Len(items) > 2 THEN items[3] ELSE NoNode
    IN  IF Failed(value) THEN IndexErrorNode
        ELSE VarDecl(items[1].text, items[2].text, value)

assignment(items) ==
    IF Failed(items[2]) THEN IndexErrorNode ELSE Assignment(items[1].text, items[2])

if_stmt(items) ==
    IF Failed(items[1]) THEN IndexErrorNode
    ELSE IfStmt(items[1], items[2], IF Len(items) > 2 THEN Block(items[3]) ELSE NoBlock)

while_stmt(items) ==
    IF Failed(items[1]) THEN IndexErrorNode ELSE WhileStmt(items[1], Tail(items))

print_stmt(items) ==
    IF Failed(items[1]) THEN IndexErrorNode ELSE PrintStmt(items[1])

\* statement* up to the end of the text or the "}" of the enclosing block:
\* the statements, whether a callback raised, and the tokens left
RECURSIVE ParseStatements(_)
ParseStatements(toks) ==
    IF toks = <<>> \/ toks[1].type = "}"
    THEN [stmts |-> <<>>, failed |-> FALSE, rest |-> toks]
    ELSE LET type == toks[1].type
             semi == Next1(toks, ";", 1)
             close == Closing(toks, 2)
             after(i) == SubSeq(toks, i + 1, Len(toks))
             expr(i, j) == ParseExpression(SubSeq(toks, i, j), 1)
             block == ParseStatements(after(close + 1))
             hasElse == Len(block.rest) > 1 /\ block.rest[2].type = "else"
             else == ParseStatements(SubSeq(block.rest, 4, Len(block.rest)))
             one ==
                 IF type = "TYPE"
                 THEN [stmt |-> IF toks[3].type = "="
                                THEN var_decl(<<toks[1], toks[2], expr(4, semi - 1)>>)
                                ELSE var_decl(<<toks[1], toks[2]>>),
                       failed |-> FALSE, rest |-> after(semi)]
                 ELSE IF type = "IDENTIFIER"
                 THEN [stmt |-> assignment(<<toks[1], expr(3, semi - 1)>>),
                       failed |-> FALSE, rest |-> after(semi)]
                 ELSE IF type = "print"
                 THEN [stmt |-> print_stmt(<<expr(3, close - 1)>>),
                       failed |-> FALSE, rest |-> after(close + 1)]
                 ELSE IF type = "while"
                 THEN [stmt |-> while_stmt(<<expr(3, close - 1)>> \o block.stmts),
                       failed |-> block.failed, rest |-> Tail(block.rest)]
                 ELSE IF hasElse
                 THEN [stmt |-> if_stmt(<<expr(3, close - 1), block.stmts, else.stmts>>),
                       failed |-> block.failed \/ else.failed, rest |-> Tail(else.rest)]
                 ELSE [stmt |-> if_stmt(<<expr(3, close - 1), block.stmts>>),
                       failed |-> block.failed, rest |-> Tail(block.rest)]
             more == ParseStatements(one.rest)
         IN  [stmts |-> <<one.stmt>> \o more.stmts,
              failed |-> one.failed \/ Failed(one.stmt) \/ more.failed,
              rest |-> more.rest]

\* ASTBuilder.program
program(items) == Program(items)

\* parser.parse then ast_builder.transform; lark's Transformer re-raises what a
\* callback raises as VisitError
parse(toks) ==
    LET all == ParseStatements(toks)
    IN  IF all.failed THEN [raised |-> TRUE, ast |-> NoNode]
        ELSE [raised |-> FALSE, ast |-> program(all.stmts)]

(***************************************************************************)
(* Source texts, as the tokens the lexer delivers for them.                *)
(***************************************************************************)
Ty(t) == Named("TYPE", t)
Id(n) == Named("IDENTIFIER", n)
Num(k) == Named("INTEGER", NatStr(MkInt(k)))
Bool(b) == Named("BOOLEAN", IF b THEN <<"t", "r", "u", "e">> ELSE <<"f", "a", "l", "s", "e">>)

DeclToks(ty, n, e) == <<Ty(ty), Id(n), Anon("=")>> \o e \o <<Anon(";")>>
AssignToks(n, e) == <<Id(n), Anon("=")>> \o e \o <<Anon(";")>>
PrintToks(e) == <<Anon("print"), Anon("(")>> \o e \o <<Anon(")"), Anon(";")>>
IfElseToks(c, t, e) ==
    <<Anon("if"), Anon("(")>> \o c \o <<Anon(")"), Anon("{")>> \o t
        \o <<Anon("}"), Anon("else"), Anon("{")>> \o e \o <<Anon("}")>>
WhileToks(c, b) ==
    <<Anon("while"), Anon("(")>> \o c \o <<Anon(")"), Anon("{")>> \o b \o <<Anon("}")>>
Parens(e) == <<Anon("(")>> \o e \o <<Anon(")")>>

BinaryOps == LogicOps \cup EqOps \cup OrderOps \cup ArithOps

\* a o1 b o2 c
Chain(a, o1, b, o2, c) == a \o <<Anon(o1)>> \o b \o <<Anon(o2)>> \o c

NameA == <<"a">>
NameB == <<"b">>
NameC == <<"c">>
NameResult == <<"r", "e", "s", "u", "l", "t">>

\* print(a o1 b o2 c); over the arithmetic operators, bare and with either
\* grouping written out
ChainSource(a, o1, b, o2, c, grouping) ==
    PrintToks(CASE grouping = "none" -> Chain(<<Num(a)>>, o1, <<Num(b)>>, o2, <<Num(c)>>)
                [] grouping = "left" ->
                       Parens(<<Num(a), Anon(o1), Num(b)>>) \o <<Anon(o2), Num(c)>>
                [] grouping = "right" ->
                       <<Num(a), Anon(o1)>> \o Parens(<<Num(b), Anon(o2), Num(c)>>))

Groupings == {"none", "left", "right"}

ChainSources ==
    {ChainSource(a, o1, b, o2, c, g) :
        a \in Lits, b \in Lits, c \in Lits, o1 \in ArithOps, o2 \in ArithOps, g \in Groupings}

\* print(1 o1 2 o2 3); over all the binary operators
MixedSource(o1, o2) == PrintToks(Chain(<<Num(1)>>, o1, <<Num(2)>>, o2, <<Num(3)>>))

MixedSources == {MixedSource(o1, o2) : o1 \in BinaryOps, o2 \in BinaryOps}

\* int a = i; int b = j; int c = k; print(a - b - c);
SubtractionSource(i, j, k) ==
    DeclToks("int", NameA, <<Num(i)>>) \o DeclToks("int", NameB, <<Num(j)>>)
        \o DeclToks("int", NameC, <<Num(k)>>)
        \o PrintToks(Chain(<<Id(NameA)>>, "-", <<Id(NameB)>>, "-", <<Id(NameC)>>))

SubtractionSources == {SubtractionSource(i, j, k) : i \in Lits, j \in Lits, k \in Lits}

\* int x = 10; int y = 20; int z = x + y * 2; print(z);
SimpleArithmeticSource ==
    DeclToks("int", NameX, <<Num(10)>>) \o DeclToks("int", NameY, <<Num(20)>>)
        \o DeclToks("int", <<"z">>, Chain(<<Id(NameX)>>, "+", <<Id(NameY)>>, "*", <<Num(2)>>))
        \o PrintToks(<<Id(<<"z">>)>>)

\* int result = 2 + 3 * 4; print(result);
OperatorPrecedenceSource ==
    DeclToks("int", NameResult, Chain(<<Num(2)>>, "+", <<Num(3)>>, "*", <<Num(4)>>))
        \o PrintToks(<<Id(NameResult)>>)

\* int a = 5; int b = 10; int result = (a + b) * 2 - 5; print(result);
ComplexExpressionSource ==
    DeclToks("int", NameA, <<Num(5)>>) \o DeclToks("int", NameB, <<Num(10)>>)
        \o DeclToks("int", NameResult,
                    Chain(Parens(<<Id(NameA), Anon("+"), Id(NameB)>>), "*", <<Num(2)>>,
                          "-", <<Num(5)>>))
        \o PrintToks(<<Id(NameResult)>>)

\* int i = 0; while (i < 3) { print(i); i = i + 1; }
WhileLoopSource ==
    DeclToks("int", <<"i">>, <<Num(0)>>)
        \o WhileToks(<<Id(<<"i">>), Anon("<"), Num(3)>>,
                     PrintToks(<<Id(<<"i">>)>>)
                         \o AssignToks(<<"i">>, <<Id(<<"i">>), Anon("+"), Num(1)>>))

\* int x = 10; if (x > 5) { print(1); } else { print(0); }
IfElseSource ==
    DeclToks("int", NameX, <<Num(10)>>)
        \o IfElseToks(<<Id(NameX), Anon(">"), Num(5)>>,
                      PrintToks(<<Num(1)>>), PrintToks(<<Num(0)>>))

\* bool a = true; bool b = false; if (a && !b) { print(1); } else { print(0); }
BooleanLogicSource ==
    DeclToks("bool", NameA, <<Bool(TRUE)>>) \o DeclToks("bool", NameB, <<Bool(FALSE)>>)
        \o IfElseToks(<<Id(NameA), Anon("&&"), Anon("!"), Id(NameB)>>,
                      PrintToks(<<Num(1)>>), PrintToks(<<Num(0)>>))

\* int x = 10; print(y);
UndeclaredSource ==
    DeclToks("int", NameX, <<Num(10)>>) \o PrintToks(<<Id(NameY)>>)

\* int x = 10; bool y = x;
TypeMismatchSource ==
    DeclToks("int", NameX, <<Num(10)>>) \o DeclToks("bool", NameY, <<Id(NameX)>>)

\* print(-k);  print(!b);  int x = k; print(0 - -x);  and a declaration
\* without initializer: int x; x = -k; print(x);
NegationSource(k) == PrintToks(<<Anon("-"), Num(k)>>)

UnarySources ==
    {NegationSource(k) : k \in Lits}
        \cup {PrintToks(<<Anon("!"), Bool(b)>>) : b \in BOOLEAN}
        \cup {DeclToks("int", NameX, <<Num(k)>>)
                  \o PrintToks(<<Num(0), Anon("-"), Anon("-"), Id(NameX)>>) : k \in Lits}
        \cup {<<Ty("int"), Id(NameX), Anon(";")>>
                  \o AssignToks(NameX, <<Anon("-"), Num(k)>>)
                  \o PrintToks(<<Id(NameX)>>) : k \in Lits}

TestSources ==
    {SimpleArithmeticSource, OperatorPrecedenceSource, ComplexExpressionSource,
     WhileLoopSource, IfElseSource, BooleanLogicSource, UndeclaredSource,
     TypeMismatchSource}

Sources ==
    ChainSources \cup MixedSources \cup SubtractionSources \cup UnarySources
        \cup TestSources

(***************************************************************************)
(* TinyLangCompiler.parse followed by compile_and_run, as the test runner  *)
(* and the file runner call them.                                          *)
(***************************************************************************)
SourceInit ==
    /\ source \in Sources
    /\ ast = NoNode
    /\ phase = "parse"
    /\ Constructed

\* ast = parser.parse(code)
Parse ==
    /\ phase = "parse"
    /\ ast' = parse(source).ast
    /\ phase' = IF parse(source).raised THEN "VisitError" ELSE "analyze"
    /\ UNCHANGED <<exit_status, buffer, history, source, invocation, entered, semantic_analyzer, tac_generator,
                   optimized_tac, bytecode_generator, vm, steps>>

SourceNext ==
    \/ Parse
    \/ Analyze
    \/ ReturnErrors
    \/ GenerateTAC
    \/ Optimize
    \/ GenerateBytecode
    \/ Execute

SourceSpec == SourceInit /\ [][SourceNext]_vars

\* the line print outputs for an integer
IntLine(k) == IF k < 0 THEN <<"-">> \o Line(0 - k) ELSE Line(k)

\* the stated precedence, low to high
Rank(op) ==
    IF op = "||" THEN 1
    ELSE IF op = "&&" THEN 2
    ELSE IF op \in EqOps THEN 3
    ELSE IF op \in OrderOps THEN 4
    ELSE IF op \in {"+", "-"} THEN 5
    ELSE 6

LeftGrouped(a, o1, b, o2, c) == BinaryOp(o2, BinaryOp(o1, a, b), c)
RightGrouped(a, o1, b, o2, c) == BinaryOp(o1, a, BinaryOp(o2, b, c))

\* a o1 b o2 c under the stated precedence and left associativity
Grouped(a, o1, b, o2, c) ==
    IF Rank(o2) > Rank(o1) THEN RightGrouped(a, o1, b, o2, c)
    ELSE LeftGrouped(a, o1, b, o2, c)

\* the number the INTEGER token at position i of the source was written from
NumAt(i) == CHOOSE k \in Lits : Num(k) = source[i]

\* the grouping written out in a source of ChainSources, and the positions of
\* its three operands
Written ==
    IF source[3].type = "(" THEN "left"
    ELSE IF source[5].type = "(" THEN "right"
    ELSE "none"

OperandsAt(grouping) ==
    CASE grouping = "none" -> <<3, 5, 7>>
      [] grouping = "left" -> <<4, 6, 9>>
      [] grouping = "right" -> <<3, 6, 8>>

Prints(k) == phase = "done" /\ vm.output = <<IntLine(k)>>

InProgress == {"analyze", "analyzed", "optimize", "bytegen", "execute"}

BooleanLogicTest ==
    <<VarDecl("bool", NameA, BoolLit(TRUE)), VarDecl("bool", NameB, BoolLit(FALSE)),
      IfStmt(BinaryOp("&&", Variable(NameA), UnaryOp("!", Variable(NameB))),
             <<PrintStmt(IntLit(1))>>, Block(<<PrintStmt(IntLit(0))>>))>>

(***************************************************************************)
(* C19  A program containing a unary operator parses and runs: the parse   *)
(* ends without an exception, -e and !e become UnaryOp nodes carrying the  *)
(* operator and the operand, print(-k) prints -k, and                      *)
(*   bool a = true; bool b = false; if (a && !b) { print(1); }             *)
(*   else { print(0); }                                                    *)
(* parses to its tree and prints 1.                                        *)
(***************************************************************************)
C19_UnaryOperatorsParseAndRun ==
    phase # "parse" =>
        /\ source \in UnarySources \cup {BooleanLogicSource} =>
              phase \in InProgress \cup {"done"}
        /\ \A k \in Lits :
              source = NegationSource(k) =>
                  /\ ast = Program(<<PrintStmt(UnaryOp("-", IntLit(k)))>>)
                  /\ phase = "done" => Prints(0 - k)
        /\ source = BooleanLogicSource =>
              /\ ast = Program(BooleanLogicTest)
              /\ phase = "done" => Prints(1)

(***************************************************************************)
(* Several compile_and_run calls on one TinyLangFullCompiler: the analyzer, *)
(* the generators and the VM are the objects __init__ created; a call      *)
(* starts when the one before has returned.                                *)
(***************************************************************************)
SessionPrograms ==
    {Program(p) : p \in
        {<<PrintStmt(IntLit(k))>> : k \in Lits}
            \cup {<<VarDecl("int", NameX, IntLit(k)), PrintStmt(Variable(NameX))>> : k \in Lits}
            \cup {<<VarDecl("int", NameX, IntLit(k)),
                    IfStmt(BinaryOp("<", Variable(NameX), IntLit(1)),
                           <<PrintStmt(Variable(NameX))>>, NoBlock)>> : k \in Lits}
            \cup {<<PrintStmt(Variable(NameY))>>}}

SessionInit ==
    /\ ast \in SessionPrograms
    /\ source = <<>>
    /\ phase = "analyze"
    /\ Constructed

\* compiler.compile_and_run(ast) once more
Invoke ==
    /\ phase \in {"done", "returned"}
    /\ invocation < MaxInvocations
    /\ ast' \in SessionPrograms
    /\ phase' = "analyze"
    /\ invocation' = invocation + 1
    /\ steps' = 0
    /\ UNCHANGED <<exit_status, buffer, history, source, entered, semantic_analyzer,
                   tac_generator, optimized_tac, bytecode_generator, vm>>

SessionNext ==
    \/ Invoke
    \/ Analyze
    \/ ReturnErrors
    \/ GenerateTAC
    \/ Optimize
    \/ GenerateBytecode
    \/ Execute

SessionSpec == SessionInit /\ [][SessionNext]_vars

\* what a compilation of ast alone produces
FirstErrors == analyze(ast, AnalyzerInit).a.errors
FirstTAC == generate(ast, TACGeneratorInit).g.instructions
FirstBytecode == BytecodeGenerate(BytecodeGeneratorInit, optimize(FirstTAC)).bytecode
FirstOutput == RunVM(VirtualMachineInit, FirstBytecode, MaxSteps).vm.output

(***************************************************************************)
(* C20  Nothing is shared across compilations: every compile_and_run       *)
(* starts from an empty symbol table, error list, instruction list,        *)
(* bytecode and VM, and produces the errors, the TAC (temporaries from t0, *)
(* labels from L0), the bytecode and the vm.output that a first invocation *)
(* on the same program produces.                                           *)
(***************************************************************************)
C20_NothingSharedAcrossCompilations ==
    /\ phase = "analyze" =>
          /\ semantic_analyzer = AnalyzerInit
          /\ tac_generator = TACGeneratorInit
          /\ bytecode_generator = BytecodeGeneratorInit
          /\ vm.stack = <<>> /\ vm.variables = EmptyDict /\ vm.output = <<>>
    /\ phase \in {"analyzed", "returned"} => semantic_analyzer.errors = FirstErrors
    /\ phase \in {"optimize", "bytegen", "execute", "done"} =>
          tac_generator.instructions = FirstTAC
    /\ phase \in {"execute", "done"} => bytecode_generator.bytecode = FirstBytecode
    /\ phase = "done" => vm.output = FirstOutput

(***************************************************************************)
(* The file runners, given the name of a readable file whose text is       *)
(* source.  run.py and main.py parse and print the tree; test_runner.py    *)
(* parses, compiles and runs (test_file) and ignores what test_file        *)
(* returns.  An exception that leaves main ends the process with status 1; *)
(* returning from main ends it with status 0.                              *)
(***************************************************************************)
RunnerSources == TestSources \cup UnarySources \cup {<<>>}

RunnerInit ==
    /\ source \in RunnerSources
    /\ ast = NoNode
    /\ phase \in {"run.py", "test_runner.py"}
    /\ Constructed

\* run.py / main.py: ast = compiler.parse(source_code); print(pretty_print_ast(ast))
RunMain ==
    /\ phase = "run.py"
    /\ ast' = parse(source).ast
    /\ exit_status' = IF parse(source).raised THEN 1 ELSE 0
    /\ phase' = "exited"
    /\ UNCHANGED <<buffer, history, source, invocation, entered, semantic_analyzer,
                   tac_generator, optimized_tac, bytecode_generator, vm, steps>>

\* test_file: parser.parse(source_code); on an exception return False, and main
\* returns
TestFileParse ==
    /\ phase = "test_runner.py"
    /\ ast' = parse(source).ast
    /\ phase' = IF parse(source).raised THEN "exited" ELSE "analyze"
    /\ exit_status' = IF parse(source).raised THEN 0 ELSE exit_status
    /\ UNCHANGED <<buffer, history, source, invocation, entered, semantic_analyzer,
                   tac_generator, optimized_tac, bytecode_generator, vm, steps>>

\* compile_and_run has returned (True) or raised (caught: False); main returns
TestFileReturn ==
    /\ phase \in {"done", "returned"} \cup Exceptions
    /\ exit_status' = 0
    /\ phase' = "exited"
    /\ UNCHANGED <<buffer, history, source, invocation, entered, ast, semantic_analyzer,
                   tac_generator, optimized_tac, bytecode_generator, vm, steps>>

RunnerNext ==
    \/ RunMain
    \/ TestFileParse
    \/ TestFileReturn
    \/ Analyze
    \/ ReturnErrors
    \/ GenerateTAC
    \/ Optimize
    \/ GenerateBytecode
    \/ Execute

RunnerSpec == RunnerInit /\ [][RunnerNext]_vars

\* every phase succeeds on the text: it parses, the analyzer records no error,
\* compile_and_run gets past the optimizer's report (which raises on an empty
\* instruction list) and execution ends at HALT
EveryPhaseSucceeds ==
    /\ ~parse(source).raised
    /\ analyze(parse(source).ast, AnalyzerInit).a.errors = <<>>
    /\ generate(parse(source).ast, TACGeneratorInit).g.instructions # <<>>
    /\ LET tac == generate(parse(source).ast, TACGeneratorInit).g.instructions
           bytecode == BytecodeGenerate(BytecodeGeneratorInit, optimize(tac)).bytecode
       IN  RunVM(VirtualMachineInit, bytecode, MaxSteps).st = "halted"

(***************************************************************************)
(* C21  The file runner exits with status 0 only when parse, semantic      *)
(* analysis, code generation and execution all succeed, and with a         *)
(* non-zero status when any of them fails, a program with semantic errors  *)
(* included.                                                               *)
(***************************************************************************)
C21_ExitStatusTellsSuccess ==
    phase = "exited" => (exit_status = 0 <=> EveryPhaseSucceeds)

(***************************************************************************)
(* repl (repl.py).  A line is the sequence of its lexemes, whitespace      *)
(* included; the lexer drops the whitespace (%ignore WS).                  *)
(***************************************************************************)
Space == [type |-> "WS", text |-> <<" ">>]
Newline == [type |-> "WS", text |-> <<"\n">>]

\* a strip that removes leading whitespace only
RECURSIVE StripLeft(_)
StripLeft(line) ==
    IF line # <<>> /\ Head(line).type = "WS" THEN StripLeft(Tail(line)) ELSE line

\* str.strip()
RECURSIVE Strip(_)
Strip(line) ==
    IF line # <<>> /\ Head(line).type = "WS" THEN Strip(Tail(line))
    ELSE IF line # <<>> /\ line[Len(line)].type = "WS"
    THEN Strip(SubSeq(line, 1, Len(line) - 1))
    ELSE line

Word(w) == <<Id(w)>>
RunWord == Word(<<"r", "u", "n">>)
ClearWord == Word(<<"c", "l", "e", "a", "r">>)
HelpWord == Word(<<"h", "e", "l", "p">>)
ExitWord == Word(<<"e", "x", "i", "t">>)

\* "\n".join(buffer)
RECURSIVE Join(_)
Join(lines) ==
    IF lines = <<>> THEN <<>>
    ELSE IF Len(lines) = 1 THEN lines[1]
    ELSE lines[1] \o <<Newline>> \o Join(Tail(lines))

\* the tokens of a text
Lex(text) == SelectSeq(text, LAMBDA t : t.type # "WS")

\* what input() returns when the user interrupts or closes the input
Interrupted == <<[type |-> "KeyboardInterrupt", text |-> <<>>]>>
EndOfInput == <<[type |-> "EOFError", text |-> <<>>]>>

\* the lines a user may enter: code, blank lines, the commands bare and with
\* whitespace around them, and code that begins with a command word
Lines ==
    {DeclToks("int", NameX, <<Num(1)>>),
     <<Space>> \o PrintToks(<<Id(NameX)>>),
     PrintToks(<<Anon("-"), Id(NameX)>>),
     <<>>,
     RunWord, <<Space>> \o RunWord \o <<Space>>,
     ClearWord, ClearWord \o <<Space>>,
     HelpWord, ExitWord, <<Space, Space>> \o ExitWord,
     AssignToks(<<"r", "u", "n">>, <<Num(1)>>)}

ReplInit ==
    /\ source = <<>>
    /\ ast = NoNode
    /\ phase = "input"
    /\ Constructed

\* one pass of the loop from input() to continue / break / buffer.append(line)
ReadLine ==
    /\ phase = "input"
    /\ Len(history) < MaxLines
    /\ \E line \in Lines :
          /\ history' = Append(history, line)
          /\ IF Strip(line) = ExitWord
             THEN phase' = "exit" /\ UNCHANGED <<buffer, source>>
             ELSE IF Strip(line) = HelpWord
             THEN UNCHANGED <<phase, buffer, source>>
             ELSE IF Strip(line) = ClearWord
             THEN buffer' = <<>> /\ UNCHANGED <<phase, source>>
             ELSE IF Strip(line) = RunWord
             THEN IF buffer = <<>>
                  THEN UNCHANGED <<phase, buffer, source>>
                  ELSE /\ source' = Lex(Join(buffer))
                       /\ buffer' = <<>>
                       /\ phase' = "parse"
             ELSE buffer' = Append(buffer, line) /\ UNCHANGED <<phase, source>>
    /\ UNCHANGED <<exit_status, invocation, entered, ast, semantic_analyzer, tac_generator,
                   optimized_tac, bytecode_generator, vm, steps>>

\* KeyboardInterrupt raised in input()
Interrupt ==
    /\ phase = "input"
    /\ Len(history) < MaxLines
    /\ history' = Append(history, Interrupted)
    /\ buffer' = <<>>
    /\ UNCHANGED <<exit_status, source, phase, invocation, entered, ast, semantic_analyzer,
                   tac_generator, optimized_tac, bytecode_generator, vm, steps>>

\* EOFError raised in input()
EndInput ==
    /\ phase = "input"
    /\ Len(history) < MaxLines
    /\ history' = Append(history, EndOfInput)
    /\ phase' = "exit"
    /\ UNCHANGED <<exit_status, source, buffer, invocation, entered, ast, semantic_analyzer,
                   tac_generator, optimized_tac, bytecode_generator, vm, steps>>

\* ast = parser.parse(source); compiler = TinyLangFullCompiler(); an exception
\* is printed and the loop continues
ReplParse ==
    /\ phase = "parse"
    /\ history # <<>>
    /\ ast' = parse(source).ast
    /\ phase' = IF parse(source).raised THEN "input" ELSE "analyze"
    /\ semantic_analyzer' = AnalyzerInit
    /\ tac_generator' = TACGeneratorInit
    /\ optimized_tac' = <<>>
    /\ bytecode_generator' = BytecodeGeneratorInit
    /\ vm' = VirtualMachineInit
    /\ steps' = 0
    /\ UNCHANGED <<exit_status, buffer, history, source, invocation, entered>>

\* compile_and_run has returned, or raised and the exception was printed
ReplContinue ==
    /\ phase \in {"done", "returned"} \cup Exceptions
    /\ phase' = "input"
    /\ UNCHANGED <<exit_status, buffer, history, source, invocation, entered, ast,
                   semantic_analyzer, tac_generator, optimized_tac, bytecode_generator,
                   vm, steps>>

ReplNext ==
    \/ ReadLine
    \/ Interrupt
    \/ EndInput
    \/ ReplParse
    \/ ReplContinue
    \/ Analyze
    \/ ReturnErrors
    \/ GenerateTAC
    \/ Optimize
    \/ GenerateBytecode
    \/ Execute

ReplSpec == ReplInit /\ [][ReplNext]_vars

\* the command a line is, whitespace aside
IsWord(line, word) == Lex(line) = word

IsCommandLine(line) ==
    IsWord(line, RunWord) \/ IsWord(line, ClearWord) \/ IsWord(line, HelpWord)
        \/ IsWord(line, ExitWord)

\* the position of the last run, clear or interrupt in the lines read, 0 if none
LastReset(h) ==
    LET resets == {i \in 1..Len(h) :
                      IsWord(h[i], RunWord) \/ IsWord(h[i], ClearWord) \/ h[i] = Interrupted}
    IN  IF resets = {} THEN 0 ELSE CHOOSE i \in resets : \A j \in resets : j <= i

\* the non-command lines read since then, in order
Pending(h) ==
    SelectSeq(SubSeq(h, LastReset(h) + 1, Len(h)),
              LAMBDA line : ~IsCommandLine(line) /\ line # EndOfInput)

\* the tokens of the lines, line after line
RECURSIVE TokensOf(_)
TokensOf(lines) ==
    IF lines = <<>> THEN <<>> ELSE Lex(Head(lines)) \o TokensOf(Tail(lines))

Compiler == <<ast, semantic_analyzer, tac_generator, optimized_tac, bytecode_generator, vm>>

\* the line read by this step
LineRead == history'[Len(history')]

(***************************************************************************)
(* C22  The REPL buffer protocol.  After every step the buffer holds the   *)
(* non-command lines read since the last run, clear or interrupt, in       *)
(* order.  A run with lines pending hands exactly their text to the        *)
(* parser, empties the buffer, and what is then analyzed is the tree of    *)
(* that text on a new compiler; the buffer stays empty through the         *)
(* compilation however it ends.  A run on an empty buffer, an exit, a      *)
(* help, a clear and a code line compile nothing, and exit ends the loop.  *)
(***************************************************************************)
C22_BufferProtocol ==
    [][/\ buffer' = Pending(history')
       /\ phase' \notin {"input", "exit"} => buffer' = <<>>
       /\ phase' = "analyze" =>
             /\ ast' = parse(TokensOf(Pending(SubSeq(history, 1, Len(history) - 1)))).ast
             /\ semantic_analyzer' = AnalyzerInit
             /\ tac_generator' = TACGeneratorInit
             /\ bytecode_generator' = BytecodeGeneratorInit
             /\ vm' = VirtualMachineInit
       /\ history' # history =>
             IF IsWord(LineRead, RunWord) /\ Pending(history) # <<>>
             THEN /\ phase' = "parse"
                  /\ source' = TokensOf(Pending(history))
             ELSE /\ UNCHANGED <<source, Compiler>>
                  /\ phase' = IF IsWord(LineRead, ExitWord) \/ LineRead = EndOfInput
                              THEN "exit" ELSE "input"
      ]_vars

\* int x = 1; and print(x); were entered, then run between blanks: 1 is
\* printed and the buffer is empty
C22_Witness ==
    /\ history = <<DeclToks("int", NameX, <<Num(1)>>), <<Space>> \o PrintToks(<<Id(NameX)>>),
                   <<Space>> \o RunWord \o <<Space>>>>
    /\ phase = "done"
    /\ vm.output = <<Line(1)>>
    /\ buffer = <<>>

\* the names that are an operand (arg1 or arg2) of some instruction of the list
Operands(list) ==
    {list[i].arg1.s : i \in {j \in DOMAIN list : list[j].arg1.k = "str"}}
        \cup {list[i].arg2.s : i \in {j \in DOMAIN list : list[j].arg2.k = "str"}}

\* an ASSIGN to a compiler temporary that no instruction of the list reads
DeadTemporary(instr, list) ==
    /\ instr.op = "ASSIGN"
    /\ instr.result.k = "str"
    /\ instr.result.s \in Temporaries \ UserNames
    /\ instr.result.s \notin Operands(list)

\* the list dead_code_elimination was given
Folded == constant_folding(tac_generator.instructions)

(***************************************************************************)
(* C23  Dead-code elimination removes exactly the ASSIGN instructions      *)
(* whose result is a compiler temporary that is no operand of any          *)
(* instruction: every write of a user-declared variable, whatever its      *)
(* name, and every LABEL, GOTO, IF_FALSE and PRINT is retained, in the     *)
(* original order.                                                         *)
(***************************************************************************)
C23_DceRemovesOnlyDeadTemporaries ==
    phase \in {"bytegen", "execute", "done"} =>
        dead_code_elimination(Folded)
            = SelectSeq(Folded, LAMBDA instr : ~DeadTemporary(instr, Folded))

\* the keys constant_folding puts in its constants table: each is set together
\* with an ASSIGN of an immediate appended to the output
ConstantKeys ==
    {Folded[i].result.s :
        i \in {j \in DOMAIN Folded : Folded[j].op = "ASSIGN" /\ Folded[j].arg1.k = "int"}}

(***************************************************************************)
(* C24  The constant-folding table is keyed only by compiler temporaries:  *)
(* while the TAC of an accepted program is folded, no name of a            *)
(* user-declared variable becomes a key of constants.                      *)
(***************************************************************************)
C24_ConstantsKeyedByTemporaries ==
    phase \in {"optimize", "bytegen", "execute", "done"} =>
        ConstantKeys \cap UserNames = {}

\* the rewrite the identity calls for: ASSIGN 0 for a product with 0, COPY x
\* for the others
Rewritten(instr, e) ==
    IF e.op = "*" /\ IntLit(0) \in {e.left, e.right}
    THEN instr.op = "ASSIGN" /\ instr.arg1 = IntArg(Zero)
    ELSE instr.op = "COPY" /\ instr.arg1 = StrArg(NameX)

(***************************************************************************)
(* C25  In the pipeline folding creates the immediates that algebraic      *)
(* simplification consumes: for int x = a; print(e); with e one of x + 0,  *)
(* 0 + x, x * 1, 1 * x, x * 0, 0 * x, x + (2 - 2), the optimized TAC has   *)
(* the COPY x (for a product with 0 the ASSIGN 0) whose result is printed, *)
(* and no ADD or MUL instruction.                                          *)
(***************************************************************************)
C25_FoldingFeedsSimplification ==
    phase \in {"bytegen", "execute", "done"} =>
        \A a \in Lits, e \in IdentityExprs :
            ast = Program(IdentityProgram(a, e)) =>
                /\ \A i \in DOMAIN optimized_tac : optimized_tac[i].op \notin {"ADD", "MUL"}
                /\ \E i \in DOMAIN optimized_tac :
                      /\ Rewritten(optimized_tac[i], e)
                      /\ optimized_tac[Len(optimized_tac)].op = "PRINT"
                      /\ optimized_tac[Len(optimized_tac)].arg1 = optimized_tac[i].result

(***************************************************************************)
(* TACOptimizer.algebraic_simplification applied on its own to lists of    *)
(* TAC instructions whose operands are names and immediates (integers and  *)
(* booleans).                                                              *)
(***************************************************************************)
SimplifyOperands ==
    {IntArg(MkInt(k)) : k \in Lits} \cup {IntArg(PyTrue), IntArg(PyFalse), StrArg(NameX)}

\* arithmetic instructions over the operands
SimplifyArith ==
    {TACInstruction(op, a, b, StrArg(TempName(0))) :
        op \in {"ADD", "MUL", "SUB"}, a \in SimplifyOperands, b \in SimplifyOperands}

\* instructions of the other kinds
SimplifyOthers ==
    {TACInstruction("ASSIGN", IntArg(Zero), NoneArg, StrArg(NameX)),
     TACInstruction("COPY", StrArg(NameX), NoneArg, StrArg(NameY)),
     TACInstruction("LABEL", NoneArg, NoneArg, StrArg(LabelName(0))),
     TACInstruction("PRINT", StrArg(NameX), NoneArg, NoneArg),
     TACInstruction("MUL", StrArg(NameY), IntArg(One), StrArg(TempName(1))),
     TACInstruction("ADD", IntArg(Zero), StrArg(NameY), StrArg(TempName(1)))}

SimplifyInputs ==
    {<<>>} \cup {<<i>> : i \in SimplifyArith \cup SimplifyOthers}
        \cup {<<i, j>> : i \in SimplifyArith, j \in SimplifyOthers}
        \cup {<<j, i, k>> : i \in SimplifyArith, j \in SimplifyOthers, k \in SimplifyOthers}

SimplifyInit ==
    /\ ast = Program(<<>>)
    /\ source = <<>>
    /\ phase = "simplify"
    /\ tac_generator \in {[TACGeneratorInit EXCEPT !.instructions = l] : l \in SimplifyInputs}
    /\ semantic_analyzer = AnalyzerInit
    /\ optimized_tac = <<>>
    /\ bytecode_generator = BytecodeGeneratorInit
    /\ vm = VirtualMachineInit
    /\ steps = 0
    /\ entered = <<>>
    /\ invocation = 1
    /\ exit_status = -1
    /\ buffer = <<>>
    /\ history = <<>>

\* optimizer.algebraic_simplification(instructions)
SimplifyOnly ==
    /\ phase = "simplify"
    /\ optimized_tac' = algebraic_simplification(tac_generator.instructions)
    /\ phase' = "simplified"
    /\ UNCHANGED <<exit_status, buffer, history, source, invocation, entered, ast,
                   semantic_analyzer, tac_generator, bytecode_generator, vm, steps>>

SimplifyNext == SimplifyOnly

SimplifySpec == SimplifyInit /\ [][SimplifyNext]_vars

\* the operand is the immediate n (True is 1 and False is 0)
Imm(arg, n) == arg.k = "int" /\ Native(arg.v) = n

HasImm(instr, n) == Imm(instr.arg1, n) \/ Imm(instr.arg2, n)

\* the operand on the other side of an immediate n
Others(instr, n) ==
    (IF Imm(instr.arg2, n) THEN {instr.arg1} ELSE {})
        \cup (IF Imm(instr.arg1, n) THEN {instr.arg2} ELSE {})

IsCopyOf(out, instr, n) ==
    /\ out.op = "COPY"
    /\ out.arg1 \in Others(instr, n)
    /\ out.arg2 = NoneArg
    /\ out.result = instr.result

IsAssignZero(out, instr) ==
    /\ out.op = "ASSIGN"
    /\ Imm(out.arg1, 0)
    /\ out.arg2 = NoneArg
    /\ out.result = instr.result

(***************************************************************************)
(* C26  algebraic_simplification is a local rewrite matched on immediates: *)
(* the output has the length and order of the input; an ADD with an        *)
(* immediate 0 operand becomes COPY of the other operand to the same       *)
(* result, a MUL with an immediate 1 operand COPY of the other operand, a  *)
(* MUL with an immediate 0 operand ASSIGN 0 (a MUL with both a 1 and a 0   *)
(* either of the two), and every other instruction is passed unchanged.    *)
(***************************************************************************)
C26_SimplificationIsLocalRewrite ==
    phase = "simplified" =>
        /\ Len(optimized_tac) = Len(tac_generator.instructions)
        /\ \A i \in DOMAIN optimized_tac :
              LET instr == tac_generator.instructions[i]
                  out == optimized_tac[i]
              IN  IF instr.op = "ADD" /\ HasImm(instr, 0)
                  THEN IsCopyOf(out, instr, 0)
                  ELSE IF instr.op = "MUL" /\ (HasImm(instr, 1) \/ HasImm(instr, 0))
                  THEN \/ HasImm(instr, 1) /\ IsCopyOf(out, instr, 1)
                       \/ HasImm(instr, 0) /\ IsAssignZero(out, instr)
                  ELSE out = instr

\* x * 0 between a PRINT and a LABEL has become ASSIGN 0 in place
C26_Witness ==
    /\ phase = "simplified"
    /\ Len(optimized_tac) = 3
    /\ tac_generator.instructions[2]
           = TACInstruction("MUL", StrArg(NameX), IntArg(Zero), StrArg(TempName(0)))
    /\ optimized_tac[2] = TACInstruction("ASSIGN", IntArg(Zero), NoneArg, StrArg(TempName(0)))
    /\ optimized_tac[1] = tac_generator.instructions[1]
    /\ optimized_tac[3] = tac_generator.instructions[3]

\* every statement is a declaration without initializer
OnlyBareDeclarations(stmts) ==
    \A i \in DOMAIN stmts : stmts[i].node = "VarDecl" /\ stmts[i].value = NoNode

(***************************************************************************)
(* C27  For a well-typed program that generates no TAC instruction (the    *)
(* empty program, or declarations without initializer only)                *)
(* compile_and_run raises ZeroDivisionError while computing the reduction  *)
(* percentage, after TAC generation and before bytecode generation: no     *)
(* bytecode is emitted and the VM never runs.                              *)
(***************************************************************************)
C27_ZeroInstructionsRaise ==
    (OnlyBareDeclarations(ast.statements) /\ semantic_analyzer.errors = <<>>) =>
        /\ phase \in {"analyze", "analyzed", "optimize", "ZeroDivisionError"}
        /\ phase \in {"optimize", "ZeroDivisionError"} => tac_generator.instructions = <<>>
        /\ bytecode_generator = BytecodeGeneratorInit
        /\ vm = VirtualMachineInit
        /\ steps = 0

\* int x; bool y; has raised
C27_Witness ==
    /\ phase = "ZeroDivisionError"
    /\ Len(ast.statements) = 2
    /\ OnlyBareDeclarations(ast.statements)
    /\ optimized_tac = <<>>

\* the value the VM holds under a name, 0 if the name was never stored
Stored(n) == IF n \in DOMAIN vm.variables THEN vm.variables[n] ELSE Zero

\* the VM has just executed LOAD n
JustLoaded(n) ==
    /\ JustExecuted = "LOAD"
    /\ bytecode_generator.bytecode[vm.pc].arg.s = n

(***************************************************************************)
(* C28  A VarDecl's name is in the symbol table before its initializer is  *)
(* analyzed: int n = n + 1; with no outer n is accepted with no error, and *)
(* at run time the reference reads the value stored under the name at that *)
(* moment, 0 if nothing was stored: the program prints 1, and as the body  *)
(* of a loop of two rounds it prints 1 then 2.                             *)
(***************************************************************************)
C28_InitializerSeesOwnName ==
    /\ \A n \in Names :
          ast \in {Program(SelfInitialized(n)), Program(SelfInitializedInLoop(n))} =>
              /\ phase # "analyze" => semantic_analyzer.errors = <<>>
              /\ phase # "returned"
              /\ phase \notin Exceptions
              /\ JustLoaded(n) => Top(vm.stack) = Stored(n)
    \* a name no temporary shares: nothing is stored before the reference
    /\ \A n \in Names \ {NameT0} :
          /\ (ast = Program(SelfInitialized(n)) /\ phase = "done") => vm.output = <<Line(1)>>
          /\ ast = Program(SelfInitializedInLoop(n)) =>
                /\ IsPrefix(vm.output, <<Line(1), Line(2)>>)
                /\ phase = "done" => vm.output = <<Line(1), Line(2)>>

\* the initializer has read 0 under the name being declared, in a loop it
\* has read the 1 of the round before
C28_Witness ==
    /\ ast = Program(SelfInitializedInLoop(NameX))
    /\ phase = "execute"
    /\ JustLoaded(NameX)
    /\ Top(vm.stack) = One
    /\ vm.output = <<Line(1)>>

\* the statements without the declarations that have no initializer
RECURSIVE WithoutBareDeclarations(_)
WithoutBareDeclarations(stmts) ==
    IF stmts = <<>> THEN <<>>
    ELSE LET n == Head(stmts)
             rest == WithoutBareDeclarations(Tail(stmts))
         IN  CASE n.node = "VarDecl" /\ n.value = NoNode -> rest
               [] n.node = "WhileStmt" ->
                    <<WhileStmt(n.condition, WithoutBareDeclarations(n.body))>> \o rest
               [] OTHER -> <<n>> \o rest

BareDeclared(n) == <<VarDecl("int", n, NoNode), PrintStmt(Variable(n))>>

\* the bytecodes that store to n
StoresTo(n) ==
    {i \in DOMAIN Bytecode : Bytecode[i] = BytecodeInstruction("STORE", StrArg(n))}

(***************************************************************************)
(* C29  A declaration without initializer emits no TAC and no bytecode:    *)
(* int n; print(n); is the TAC and bytecode of print(n); alone and prints  *)
(* 0; in a while body the declaration does not reset the variable, so      *)
(*   while (i < 2) { int n; print(n); n = n + 5; i = i + 1; }              *)
(* prints 0 then 5, its only store to n being the assignment's.            *)
(***************************************************************************)
C29_BareDeclarationEmitsNothing ==
    \A n \in Names :
        /\ ast \in {Program(BareDeclared(n)), Program(BareDeclaredInLoop(n))} =>
              /\ phase \notin {"analyze", "analyzed"} =>
                    tac_generator.instructions =
                        generate(Program(WithoutBareDeclarations(ast.statements)),
                                 TACGeneratorInit).g.instructions
              /\ phase \notin Exceptions \cup {"returned"}
        /\ ast = Program(BareDeclared(n)) =>
              /\ phase \notin {"analyze", "analyzed"} =>
                    tac_generator.instructions =
                        <<TACInstruction("PRINT", StrArg(n), NoneArg, NoneArg)>>
              /\ phase \in {"execute", "done"} =>
                    Bytecode = <<BytecodeInstruction("LOAD", StrArg(n)),
                                 BytecodeInstruction("PRINT", NoneArg),
                                 BytecodeInstruction("HALT", NoneArg)>>
              /\ phase = "done" => vm.output = <<Line(0)>>
        /\ ast = Program(BareDeclaredInLoop(n)) =>
              \* a name no temporary shares
              /\ (phase \in {"execute", "done"} /\ n # NameT0) => Cardinality(StoresTo(n)) = 1
              /\ IsPrefix(vm.output, <<Line(0), Line(5)>>)
              /\ phase = "done" => vm.output = <<Line(0), Line(5)>>

\* the second round has printed the 5 stored by the first
C29_Witness ==
    /\ ast = Program(BareDeclaredInLoop(NameX))
    /\ phase = "done"
    /\ vm.output = <<Line(0), Line(5)>>
    /\ vm.variables[NameX] = MkInt(10)

(***************************************************************************)
(* The VM on bytecode of its own: execute applied to every list of up to   *)
(* MaxCode instructions, with and without HALT, with jumps to every        *)
(* address up to the end of the list, next to the compilations of Spec.    *)
(***************************************************************************)
RawInstructions ==
    {BytecodeInstruction("PUSH", IntArg(MkInt(v))) : v \in 0..1}
        \cup {BytecodeInstruction("LOAD", StrArg(NameX)),
              BytecodeInstruction("STORE", StrArg(NameX)),
              BytecodeInstruction("PRINT", NoneArg),
              BytecodeInstruction("ADD", NoneArg),
              BytecodeInstruction("HALT", NoneArg)}
        \cup {BytecodeInstruction(op, IntArg(MkInt(t))) :
                 op \in {"JUMP", "JUMP_IF_FALSE"}, t \in 0..MaxCode}

RawBytecodes == UNION {[1..k -> RawInstructions] : k \in 1..MaxCode}

\* vm = VirtualMachine(); vm.execute(bytecode)
RawInit ==
    /\ ast = NoNode
    /\ source = <<>>
    /\ phase = "execute"
    /\ semantic_analyzer = AnalyzerInit
    /\ tac_generator = TACGeneratorInit
    /\ optimized_tac = <<>>
    /\ bytecode_generator \in {[bytecode |-> b, labels |-> EmptyDict] : b \in RawBytecodes}
    /\ vm = VirtualMachineInit
    /\ steps = 0
    /\ entered = <<>>
    /\ invocation = 1
    /\ exit_status = -1
    /\ buffer = <<>>
    /\ history = <<>>

VmInit == Init \/ RawInit

VmSpec == VmInit /\ [][Next]_vars

\* no while statement among the statements, nested blocks included
RECURSIVE WhileFree(_)
WhileFree(stmts) ==
    \A i \in DOMAIN stmts :
        CASE stmts[i].node = "WhileStmt" -> FALSE
          [] stmts[i].node = "IfStmt" ->
               /\ WhileFree(stmts[i].then_block)
               /\ WhileFree(stmts[i].else_block.stmts)
          [] OTHER -> TRUE

\* the address a jump goes to
Target(i) == Native(Bytecode[i].arg.v)

\* the compilation of a program without while is executing or has executed
StraightLine ==
    /\ ast.node = "Program"
    /\ WhileFree(ast.statements)
    /\ phase \in {"execute", "done"}

(***************************************************************************)
(* C30  For every accepted program with no while statement all emitted     *)
(* jumps are forward, every step of execute but the last moves pc          *)
(* strictly up, so no instruction executes twice, nothing is raised, and   *)
(* the last step executes the trailing HALT; on any bytecode execute also  *)
(* stops, changing nothing, once pc is len(bytecode) or beyond, and stops  *)
(* only there or at a HALT.                                                *)
(***************************************************************************)
C30_StraightLineTerminates ==
    [][ /\ StraightLine' =>
              /\ \A i \in Jumps' : Target(i)' >= i
              /\ phase' = "execute" => (steps' <= vm'.pc /\ vm'.pc < Len(Bytecode'))
              /\ phase' = "done" => steps' <= Len(Bytecode')
        /\ StraightLine =>
              /\ phase' \in {"execute", "done"}
              /\ phase' = "execute" => vm'.pc > vm.pc
              /\ phase' = "done" =>
                    /\ vm.pc = Len(Bytecode) - 1
                    /\ Bytecode[Len(Bytecode)].op = "HALT"
        /\ phase = "execute" =>
              /\ vm.pc >= Len(Bytecode) => phase' = "done"
              /\ phase' = "done" =>
                    /\ vm' = vm
                    /\ vm.pc >= Len(Bytecode) \/ Bytecode[vm.pc + 1].op = "HALT"
      ]_vars

\* an if with an else has run: two forward jumps, fewer steps than
\* instructions, pc at the trailing HALT
C30_Witness ==
    /\ StraightLine
    /\ phase = "done"
    /\ Cardinality(Jumps) = 2
    /\ steps < Len(Bytecode)
    /\ vm.pc = Len(Bytecode) - 1
    /\ vm.output # <<>>

====
